---- MODULE Spec2Model ----
(***************************************************************************)
(* Verification model of pypower: the binning / projection engine         *)
(* (project_to_basis, fft_power.py) run SPMD over the ranks of a           *)
(* communicator, and the power spectrum statistics container              *)
(* (BasePowerSpectrumStatistics, PowerSpectrumMultipoles).                 *)
(*                                                                         *)
(* Arithmetic is exact.  Wavevectors are integer triples in units of the   *)
(* fundamental 2*pi/BoxSize; the norm of k is sqrt(n2) with                *)
(* n2 = kx^2+ky^2+kz^2 ("shell").  Bin edges are rationals <<p, q>> = p/q. *)
(* A real sum that mixes shells (sum of x, of mu, of Legendre weights) is  *)
(* kept as one integer coefficient per shell:                              *)
(*    xsum   = SUM_s c[s] * sqrt(s)                                        *)
(*    musum  = SUM_s c[s] / sqrt(s)                                        *)
(*    ysum_l = SUM_s c[s] / LegDen(l, s)                                   *)
(* so that comparisons between sums never round.                           *)
(***************************************************************************)
EXTENDS Integers, Sequences, FiniteSets, TLC

\* half the mesh size per axis (the mesh size must be even)
HalfN == 2

Nmesh == 2 * HalfN

\* number of MPI ranks of the communicator
Ranks == {0, 1}

\* frequencies of y3d.x along one axis, fftfreq convention: the Nyquist
\* frequency appears once, as -HalfN
Freq == (-HalfN)..(HalfN - 1)

\* frequency of the islab-th plane along an uncompressed axis
SlabFreq(i) == IF i < HalfN THEN i ELSE i - Nmesh

\* frequencies stored along the last axis
LastFreq(compressed) == IF compressed THEN (0..(HalfN - 1)) \cup {-HalfN} ELSE Freq

\* shells: squared norms that occur on the mesh
Shells == 0..(3 * HalfN * HalfN)

Norm2(k) == k[1] * k[1] + k[2] * k[2] + k[3] * k[3]

Dot(k, los) == k[1] * los[1] + k[2] * los[2] + k[3] * los[3]

\* -k on the periodic mesh (the Nyquist frequency is its own opposite)
NegFreq(j) == IF j = -HalfN THEN j ELSE -j

NegMode(k) == <<NegFreq(k[1]), NegFreq(k[2]), NegFreq(k[3])>>

(***************************************************************************)
(* Fields.  A field kind fixes the value of every mode of the global       *)
(* (uncompressed) field; the compressed storage keeps the planes of        *)
(* LastFreq(TRUE) of the same field.                                       *)
(***************************************************************************)
OddPart(j) == IF j = -HalfN THEN 0 ELSE j

EvenValue(k) == 1 + k[1] * k[1] + 2 * k[2] * k[2] + 3 * k[3] * k[3] + OddPart(k[1]) * OddPart(k[3])

OddValue(k) == OddPart(k[1]) + 2 * OddPart(k[2]) + 4 * OddPart(k[3])

\* value <<re, im>> of the field at mode k
\*   "herm":    y(-k) = conj(y(k))
\*   "anti":    y(-k) = -conj(y(k))
\*   "impulse": 3 at the origin, 0 elsewhere
\*   "generic": no symmetry
FieldValue(kind, k) ==
    CASE kind = "herm" -> <<EvenValue(k), OddValue(k)>>
      [] kind = "anti" -> <<OddValue(k), EvenValue(k)>>
      [] kind = "impulse" -> IF Norm2(k) = 0 THEN <<3, 0>> ELSE <<0, 0>>
      [] OTHER -> <<k[1] + 2 * k[2] + 3, k[3] - k[1] * k[2]>>

Conj(z) == <<z[1], -z[2]>>

Scale(a, z) == <<a * z[1], a * z[2]>>

\* product of two complex numbers
CMul(a, b) == <<a[1] * b[1] - a[2] * b[2], a[1] * b[2] + a[2] * b[1]>>

EvenValue2(k) == 2 + k[1] * k[1] + k[3] * k[3] + OddPart(k[2]) * OddPart(k[3])

OddValue2(k) == OddPart(k[1]) - OddPart(k[3])

\* value at mode k of the complex field of an input mesh ("f1" or "f2"): the
\* transform of a real field, c(-k) = conj(c(k))
MeshValue(f, k) ==
    IF f = "f1" THEN <<EvenValue(k), OddValue(k)>> ELSE <<EvenValue2(k), OddValue2(k)>>

\* value at mode k of Aell, the sum over m of Ylm(khat) times the transform of
\* the real field Ylm(xhat) * f: A(-k) = (-1)^ell conj(A(k))
YlmSum(f, ell, k) ==
    LET h == IF f = "f1" THEN <<EvenValue2(k) + ell, OddValue(k)>>
             ELSE <<EvenValue(k) + ell, OddValue2(k)>>
    IN  IF ell % 2 = 0 THEN h ELSE <<-h[2], h[1]>>

\* a factor of the product an estimator projects: the complex field of a mesh,
\* or Aell of a mesh
Factor(fr, k) == IF fr.ylm THEN YlmSum(fr.mesh, fr.ell, k) ELSE MeshValue(fr.mesh, k)

(***************************************************************************)
(* Exact comparisons of bin edges with norms and cosines.                  *)
(***************************************************************************)
\* edge p/q <= sqrt(n2)
EdgeLeqNorm(e, n2) == e[1] <= 0 \/ e[1] * e[1] <= e[2] * e[2] * n2

\* edge p/q <= m / sqrt(n2); for the zero mode the cosine is 0 whatever m
EdgeLeqMu(e, m, n2) ==
    LET a == IF n2 = 0 THEN 0 ELSE e[2] * m
        b == e[1]
        s == IF n2 = 0 THEN 1 ELSE n2
    IN  CASE b <= 0 /\ a >= 0 -> TRUE
          [] b > 0 /\ a <= 0 -> FALSE
          [] b > 0 /\ a > 0 -> b * b * s <= a * a
          [] OTHER -> b * b * s >= a * a

\* m / sqrt(n2) = edge p/q
MuEqEdge(e, m, n2) ==
    LET a == IF n2 = 0 THEN 0 ELSE e[2] * m
        b == e[1]
        s == IF n2 = 0 THEN 1 ELSE n2
    IN  /\ (a > 0) = (b > 0)
        /\ (a < 0) = (b < 0)
        /\ b * b * s = a * a

\* edge p/q <= 0
EdgeLeqZero(e) == e[1] <= 0

\* np.digitize(x, edges, right=False) on increasing edges: the number of
\* edges <= x, i.e. i with edges[i-1] <= x < edges[i]
\* variant of DigitizeNorm with right=True, i.e. edges[i-1] < x <= edges[i]
DigitizeNormRight(n2, edges) ==
    Cardinality({j \in DOMAIN edges : edges[j][1] < 0 \/ edges[j][1] * edges[j][1] < edges[j][2] * edges[j][2] * n2})

DigitizeNorm(n2, edges) == Cardinality({j \in DOMAIN edges : EdgeLeqNorm(edges[j], n2)})

DigitizeMu(m, n2, edges) == Cardinality({j \in DOMAIN edges : EdgeLeqMu(edges[j], m, n2)})

DigitizeZero(edges) == Cardinality({j \in DOMAIN edges : EdgeLeqZero(edges[j])})

\* mask_zero = xnorm < mincell / 2, in units of the fundamental: 4 * n2 < 1
MaskZero(n2) == 4 * n2 < 1

\* dig_x of a mode: np.digitize, then the zero mode is sent to row nx + 2
DigX(n2, xedges) ==
    IF MaskZero(n2) THEN Len(xedges) - 1 + 2 ELSE DigitizeNorm(n2, xedges)

\* variant of DigMu where the last mu-edge is not made inclusive
DigMuHalfOpen(m, n2, muedges) ==
    IF MaskZero(n2) THEN Len(muedges) - 1 + 2 ELSE DigitizeMu(m, n2, muedges)

\* dig_mu of a mode with cosine m / sqrt(n2): np.digitize, then the last
\* edge is made inclusive, then the zero mode is sent to column nmu + 2
DigMu(m, n2, muedges) ==
    LET nmu == Len(muedges) - 1
    IN  IF MaskZero(n2) THEN nmu + 2
        ELSE IF MuEqEdge(muedges[Len(muedges)], m, n2) THEN nmu
        ELSE DigitizeMu(m, n2, muedges)

(***************************************************************************)
(* Legendre weights (2 l + 1) P_l(mu) with mu = m / sqrt(n2), as integer   *)
(* numerators over LegDen(l, n2) = 1, sqrt(n2), 2 n2, 2 n2^(3/2), 8 n2^2   *)
(* for l = 0..4 (n2 read as 1 for the zero mode, where mu = 0).            *)
(***************************************************************************)
LegNum(ell, m, n2) ==
    LET s == IF n2 = 0 THEN 1 ELSE n2
        c == IF n2 = 0 THEN 0 ELSE m
    IN  CASE ell = 0 -> 1
          [] ell = 1 -> 3 * c
          [] ell = 2 -> 5 * (3 * c * c - s)
          [] ell = 3 -> 7 * (5 * c * c * c - 3 * c * s)
          [] OTHER -> 9 * (35 * c * c * c * c - 30 * c * c * s + 3 * s * s)

\* position of v in the increasing sequence of the members of S
RankIn(S, v) == Cardinality({u \in S : u <= v})

\* unique_ells = sorted(set([0]) | set(ells)), as a sequence
UniqueElls(ells) ==
    LET S == {0} \cup {ells[i] : i \in DOMAIN ells}
    IN  [i \in 1..Cardinality(S) |-> CHOOSE v \in S : RankIn(S, v) = i]

(***************************************************************************)
(* State of the projection engine.                                         *)
(***************************************************************************)
VARIABLES
    cfg,      \* inputs of project_to_basis and the storage / partition of each call
    call,     \* index of the current call of project_to_basis
    pc,       \* per rank: position in project_to_basis
    pos,      \* per rank: islab, the next local plane of the loop
    nsum,     \* per rank: mode counts, (nx + 3, nmu + 3)
    xsum,     \* per rank: sums of x, per shell
    musum,    \* per rank: sums of mu, per shell
    ysum,     \* per rank: Legendre weighted sums of y3d, (nell, nx + 3, nmu + 3), per shell
    out,      \* per rank: what project_to_basis returned
    hist,     \* what the previous calls returned (on rank 0), in order
    stat,     \* a power spectrum statistic (BasePowerSpectrumStatistics instance)
    ret,      \* the last call of a method of stat: its arguments, stat before it, its result
    prev,     \* the call before, when it was the same call on the same statistic
    operands, \* the statistics at hand for sum, + and the built-in sum
    est,      \* a MeshFFTPower instance: its arguments, how far __init__ went, its results
    ue,       \* a call of find_unique_edges: its arguments, per rank position and result
    coll,     \* a call of gather_array or scatter_array: per rank data, position and error
    dom       \* a call of domain_decompose: its arguments, how far it went, its grid

pvars == <<cfg, call, pc, pos, nsum, xsum, musum, ysum, out, hist>>

\* what the methods of a statistic leave alone
\* the calls of the stand-alone functions
fvars == <<ue, coll, dom>>

ovars == <<operands, est, fvars>>

svars == <<stat, ret, prev, ovars>>

vars == <<pvars, svars>>

\* planes 0..cut-1 on rank 0, the others on rank 1
Owner(cut) == [i \in 0..(Nmesh - 1) |-> IF i < cut THEN 0 ELSE 1]

\* no rank has empty slabs
NoHollow == [r \in Ranks |-> 0]

\* storage and partition of the successive calls made on the same global
\* field: Hermitian-compressed or not, with or without a rank that holds no
\* plane; hollow[r] is the number of slabs of rank r that hold no mode (a
\* local shape (n, 0, Nz)), here two slabs of the rank that holds no mode
Calls ==
    << [compressed |-> TRUE, owner |-> Owner(HalfN), hollow |-> NoHollow],
       [compressed |-> FALSE, owner |-> Owner(1), hollow |-> NoHollow],
       [compressed |-> TRUE, owner |-> Owner(0), hollow |-> NoHollow],
       [compressed |-> FALSE, owner |-> Owner(Nmesh),
        hollow |-> [r \in Ranks |-> IF r = 1 THEN 2 ELSE 0]] >>

Nx == Len(cfg.xedges) - 1

Nmu == Len(cfg.muedges) - 1

Rows == 0..(Nx + 2)

Cols == 0..(Nmu + 2)

Ells == UniqueElls(cfg.ells)

Compressed == Calls[call].compressed

\* variant of HermitianSymmetric that ignores the antisymmetric flag
HermitianSymmetricUnsigned == IF ~Compressed THEN 0 ELSE 1

\* y3d.compressed, times -1 if antisymmetric
HermitianSymmetric ==
    IF ~Compressed THEN 0 ELSE IF cfg.antisymmetric THEN -1 ELSE 1

\* local planes of rank r, in increasing order: x3d[0].shape[0] of them
LocalPlanes(r) == {i \in 0..(Nmesh - 1) : Calls[call].owner[i] = r}

\* x3d[0].shape[0] on rank r: its planes, then its empty slabs
LocalCount(r) == Cardinality(LocalPlanes(r)) + Calls[call].hollow[r]

\* len(xnorm.flat) == 0 for the islab-th slab of rank r
EmptySlab(r, islab) == islab >= Cardinality(LocalPlanes(r))

\* global index of the islab-th local plane of rank r
GlobalPlane(r, islab) ==
    CHOOSE i \in LocalPlanes(r) : Cardinality({j \in LocalPlanes(r) : j < i}) = islab

LastLen == IF Compressed THEN HalfN + 1 ELSE Nmesh

LastFreqAt(j) ==
    IF j < HalfN THEN j ELSE IF Compressed THEN -HalfN ELSE j - Nmesh

\* the j-th mode of plane i (row-major over the last two axes)
SlabMode(i, j) == <<SlabFreq(i), SlabFreq(j \div LastLen), LastFreqAt(j % LastLen)>>

SlabSize == Nmesh * LastLen

\* variant of Nonsingular that also mirrors the plane of zero frequency
NonsingularWithZero(k) == k[3] >= 0

\* nonsingular = x3d[-1][0] > 0: the mirror of the mode is not stored
Nonsingular(k) == k[3] > 0

\* sums are kept sparse: one entry per shell with a nonzero coefficient
ZeroVec == [s \in {} |-> 0]

ZeroCVec == [s \in {} |-> <<0, 0>>]

Coef(v, s) == IF s \in DOMAIN v THEN v[s] ELSE 0

CCoef(v, s) == IF s \in DOMAIN v THEN v[s] ELSE <<0, 0>>

\* v with d added to the coefficient of shell s
VecPlus(v, s, d) ==
    LET new == Coef(v, s) + d
    IN  IF new = 0 THEN [t \in DOMAIN v \ {s} |-> v[t]]
        ELSE [t \in DOMAIN v \cup {s} |-> IF t = s THEN new ELSE v[t]]

CVecPlus(v, s, d) ==
    LET new == <<CCoef(v, s)[1] + d[1], CCoef(v, s)[2] + d[2]>>
    IN  IF new = <<0, 0>> THEN [t \in DOMAIN v \ {s} |-> v[t]]
        ELSE [t \in DOMAIN v \cup {s} |-> IF t = s THEN new ELSE v[t]]

ZeroBuffers ==
    [n |-> [i \in Rows |-> [j \in Cols |-> 0]],
     x |-> [i \in Rows |-> [j \in Cols |-> ZeroVec]],
     mu |-> [i \in Rows |-> [j \in Cols |-> ZeroVec]],
     y |-> [l \in DOMAIN Ells |-> [i \in Rows |-> [j \in Cols |-> ZeroCVec]]]]

\* one term of the np.bincount calls of a pass: the mode k seen with cosine
\* sign * mu and value v
AddMode(acc, k, sign, v) ==
    LET n2 == Norm2(k)
        m == sign * Dot(k, cfg.los)
        i == DigX(n2, cfg.xedges)
        j == DigMu(m, n2, cfg.muedges)
    IN  [n |-> [acc.n EXCEPT ![i][j] = @ + 1],
         x |-> [acc.x EXCEPT ![i][j] = VecPlus(@, n2, IF n2 = 0 THEN 0 ELSE 1)],
         mu |-> [acc.mu EXCEPT ![i][j] = VecPlus(@, n2, IF n2 = 0 THEN 0 ELSE m)],
         y |-> [l \in DOMAIN Ells |->
                  [acc.y[l] EXCEPT ![i][j] = CVecPlus(@, n2, Scale(LegNum(Ells[l], m, n2), v))]]]

\* y3d at mode k: a field of FieldValue, or the product left.conj() * right
\* an estimator has formed
ModeValue(k) ==
    IF cfg.field = "product" THEN CMul(Conj(Factor(cfg.left, k)), Factor(cfg.right, k))
    ELSE FieldValue(cfg.field, k)

\* first pass over plane i (imu = 0): every stored mode, with mu and y3d
\* (acc = acc always: the test has the sums evaluated term by term, which
\* keeps the evaluation of the fold shallow)
RECURSIVE DirectPass(_, _, _)
DirectPass(acc, i, j) ==
    IF j = SlabSize \/ acc # acc THEN acc
    ELSE DirectPass(AddMode(acc, SlabMode(i, j), 1, ModeValue(SlabMode(i, j))), i, j + 1)

\* second pass (imu = 1, compressed fields): the nonsingular modes, with
\* -mu and hermitian_symmetric * conj(y3d)
RECURSIVE MirrorPass(_, _, _)
MirrorPass(acc, i, j) ==
    IF j = SlabSize \/ acc # acc THEN acc
    ELSE IF Nonsingular(SlabMode(i, j))
         THEN MirrorPass(AddMode(acc, SlabMode(i, j), -1,
                                 Scale(HermitianSymmetric, Conj(ModeValue(SlabMode(i, j))))),
                         i, j + 1)
         ELSE MirrorPass(acc, i, j + 1)

\* body of the loop over planes
AccumulatePlane(acc, i) ==
    IF HermitianSymmetric = 0 THEN DirectPass(acc, i, 0)
    ELSE MirrorPass(DirectPass(acc, i, 0), i, 0)

(***************************************************************************)
(* What project_to_basis does after the reductions.                        *)
(***************************************************************************)
\* a real (or complex) sum after the Nyquist masking: NaN, or its value
NaNSum(zero) == [nan |-> TRUE, v |-> zero]

Finite(v) == [nan |-> FALSE, v |-> v]

AddVec(a, b) ==
    LET D == {s \in DOMAIN a \cup DOMAIN b : Coef(a, s) + Coef(b, s) # 0}
    IN  [s \in D |-> Coef(a, s) + Coef(b, s)]

AddCVec(a, b) ==
    LET sum(s) == <<CCoef(a, s)[1] + CCoef(b, s)[1], CCoef(a, s)[2] + CCoef(b, s)[2]>>
        D == {s \in DOMAIN a \cup DOMAIN b : sum(s) # <<0, 0>>}
    IN  [s \in D |-> sum(s)]

\* a + b in floating point: NaN if one of them is
AddSum(a, b) ==
    IF a.nan \/ b.nan THEN NaNSum(ZeroVec) ELSE Finite(AddVec(a.v, b.v))

AddCSum(a, b) ==
    IF a.nan \/ b.nan THEN NaNSum(ZeroCVec) ELSE Finite(AddCVec(a.v, b.v))

\* sum / n: NaN for NaN / n and for 0 / 0, infinite for x / 0, else the
\* quotient as the pair (numerator, denominator)
Divide(a, n, zero) ==
    IF a.nan \/ (n = 0 /\ a.v = zero) THEN [kind |-> "nan", num |-> zero, den |-> 0]
    ELSE IF n = 0 THEN [kind |-> "inf", num |-> a.v, den |-> 0]
    ELSE [kind |-> "finite", num |-> a.v, den |-> n]

\* xmax = min over axes of Nmesh // 2 * cellsize, in units of the fundamental
Nyquist == Nmesh \div 2

\* variant of MaskBeyondNyq that takes the rows of the bins whose lower edge
\* is at or beyond Nyquist
MaskLowerEdge(xedges) ==
    {i \in 1..Len(xedges) : xedges[i][1] >= Nyquist * xedges[i][2]}

\* mask_beyond_nyq: the indices i of xedges with xedges[i] >= Nyquist (the
\* same indices are then used as row numbers of the (nx + 3) row buffers)
MaskBeyondNyq(xedges) ==
    {i \in 0..(Len(xedges) - 1) : xedges[i + 1][1] >= Nyquist * xedges[i + 1][2]}

\* dig_zero = np.digitize(0., edges) for both axes
DigZero(xedges, muedges) == <<DigitizeZero(xedges), DigitizeZero(muedges)>>

RECURSIVE SumOver(_, _, _)
\* f(lo) + ... + f(hi) in floating point, for sums that may be NaN
SumOver(f, lo, hi) ==
    IF lo > hi THEN Finite(ZeroVec) ELSE AddSum(f[lo], SumOver(f, lo + 1, hi))

RECURSIVE SumCOver(_, _, _)
SumCOver(f, lo, hi) ==
    IF lo > hi THEN Finite(ZeroCVec) ELSE AddCSum(f[lo], SumCOver(f, lo + 1, hi))

RECURSIVE SumInt(_, _, _)
SumInt(f, lo, hi) == IF lo > hi THEN 0 ELSE f[lo] + SumInt(f, lo + 1, hi)

\* variant of EllIndex that counts from the greatest multipole
EllIndexDescending(uells, ell) == Cardinality({l \in DOMAIN uells : uells[l] >= ell})

\* index of ell in unique_ells
EllIndex(uells, ell) == CHOOSE l \in DOMAIN uells : uells[l] = ell

\* the part of project_to_basis that follows the reductions: Nyquist
\* masking, folding of the zero mode, averages and multipoles.  n, x, mu, y
\* are the reduced buffers.
Finish(n, x, mu, y, xedges, muedges, ells, uells, poles, exclude_zero) ==
    LET nx == Len(xedges) - 1
        nmu == Len(muedges) - 1
        rows == 0..(nx + 2)
        cols == 0..(nmu + 2)
        mask == MaskBeyondNyq(xedges)
        \* masking
        xm == [i \in rows |-> [j \in cols |-> IF i \in mask THEN NaNSum(ZeroVec) ELSE Finite(x[i][j])]]
        mum == [i \in rows |-> [j \in cols |-> IF i \in mask THEN NaNSum(ZeroVec) ELSE Finite(mu[i][j])]]
        ym == [l \in DOMAIN uells |-> [i \in rows |-> [j \in cols |->
                 IF i \in mask THEN NaNSum(ZeroCVec) ELSE Finite(y[l][i][j])]]]
        nm == [i \in rows |-> [j \in cols |-> IF i \in mask THEN 0 ELSE n[i][j]]]
        \* folding of the zero mode
        dz == DigZero(xedges, muedges)
        fold(i, j) == ~exclude_zero /\ <<i, j>> = dz
        xf == [i \in rows |-> [j \in cols |->
                 IF fold(i, j) THEN AddSum(xm[i][j], xm[nx + 2][nmu + 2]) ELSE xm[i][j]]]
        muf == [i \in rows |-> [j \in cols |->
                 IF fold(i, j) THEN AddSum(mum[i][j], mum[nx + 2][nmu + 2]) ELSE mum[i][j]]]
        yf == [l \in DOMAIN uells |-> [i \in rows |-> [j \in cols |->
                 IF fold(i, j) THEN AddCSum(ym[l][i][j], ym[l][nx + 2][nmu + 2])
                 ELSE ym[l][i][j]]]]
        nf == [i \in rows |-> [j \in cols |->
                 IF fold(i, j) THEN nm[i][j] + nm[nx + 2][nmu + 2] ELSE nm[i][j]]]
        \* sl = slice(1, -2): rows 1..nx, columns 1..nmu
        n1d == [i \in 1..nx |-> SumInt(nf[i], 1, nmu)]
    IN  [masked |-> mask,
         xmean2d |-> [i \in 1..nx |-> [j \in 1..nmu |-> Divide(xf[i][j], nf[i][j], ZeroVec)]],
         mumean2d |-> [i \in 1..nx |-> [j \in 1..nmu |-> Divide(muf[i][j], nf[i][j], ZeroVec)]],
         y2d |-> [i \in 1..nx |-> [j \in 1..nmu |-> Divide(yf[1][i][j], nf[i][j], ZeroCVec)]],
         n2d |-> [i \in 1..nx |-> [j \in 1..nmu |-> nf[i][j]]],
         zero2d |-> yf[1][nx + 2][nmu + 2].v,
         return_poles |-> poles,
         n1d |-> IF poles THEN n1d ELSE <<>>,
         xmean1d |-> IF poles
                     THEN [i \in 1..nx |-> Divide(SumOver(xf[i], 1, nmu), n1d[i], ZeroVec)]
                     ELSE <<>>,
         poles |-> IF poles
                   THEN [e \in DOMAIN ells |-> [i \in 1..nx |->
                           Divide(SumCOver(yf[EllIndex(uells, ells[e])][i], 1, nmu),
                                  n1d[i], ZeroCVec)]]
                   ELSE <<>>,
         poles_zero |-> IF poles
                        THEN [e \in DOMAIN ells |-> yf[EllIndex(uells, ells[e])][nx + 2][nmu + 2].v]
                        ELSE <<>>]

(***************************************************************************)
(* Inputs.                                                                 *)
(***************************************************************************)
\* x-edges, in units of the fundamental
XEdgesSet ==
    { << <<0, 1>>, <<2, 1>>, <<3, 1>> >>,
      << <<0, 1>>, <<1, 1>>, <<3, 2>>, <<9, 5>> >>,
      << <<1, 2>>, <<5, 4>>, <<5, 2>> >> }

MuEdgesSet ==
    { << <<-1, 1>>, <<-1, 2>>, <<0, 1>>, <<1, 2>>, <<1, 1>> >>,
      << <<-1, 1>>, <<1, 1>> >>,
      << <<-1, 1>>, <<-1, 2>>, <<0, 1>> >>,
      << <<-1, 2>>, <<0, 1>>, <<1, 3>> >> }

LosSet == { <<0, 0, 1>>, <<1, 0, 0>> }

\* the field, the antisymmetric flag passed with it and the requested
\* multipoles (poles = FALSE stands for ells=None)
FieldSet ==
    { [field |-> "herm", antisymmetric |-> FALSE, ells |-> <<2, 0, 1>>, poles |-> TRUE],
      [field |-> "anti", antisymmetric |-> TRUE, ells |-> <<1, 0>>, poles |-> TRUE],
      [field |-> "impulse", antisymmetric |-> FALSE, ells |-> <<>>, poles |-> FALSE] }

(***************************************************************************)
(* project_to_basis, rank by rank.                                         *)
(***************************************************************************)
Init ==
    /\ \E xe \in XEdgesSet, me \in MuEdgesSet, los \in LosSet,
          f \in FieldSet, ez \in BOOLEAN :
          cfg = [xedges |-> xe, muedges |-> me, los |-> los, ells |-> f.ells, poles |-> f.poles,
                 field |-> f.field, antisymmetric |-> f.antisymmetric, exclude_zero |-> ez]
    /\ call = 1
    /\ pc = [r \in Ranks |-> "loop"]
    /\ pos = [r \in Ranks |-> 0]
    /\ nsum = [r \in Ranks |-> ZeroBuffers.n]
    /\ xsum = [r \in Ranks |-> ZeroBuffers.x]
    /\ musum = [r \in Ranks |-> ZeroBuffers.mu]
    /\ ysum = [r \in Ranks |-> ZeroBuffers.y]
    /\ out = [r \in Ranks |-> <<>>]
    /\ hist = <<>>
    /\ stat = [kind |-> "none"]
    /\ ret = [op |-> "none"]
    /\ prev = [op |-> "none"]
    /\ operands = <<>>
    /\ est = [stage |-> "none"]
    /\ dom = [stage |-> "none"]
    /\ ue = [stage |-> "none"]
    /\ coll = [op |-> "none"]

\* one iteration of the loop over the local planes
Plane(r) ==
    /\ pc[r] = "loop"
    /\ pos[r] < LocalCount(r)
    /\ LET acc == IF EmptySlab(r, pos[r])
                  THEN [n |-> nsum[r], x |-> xsum[r], mu |-> musum[r], y |-> ysum[r]]
                  ELSE AccumulatePlane([n |-> nsum[r], x |-> xsum[r], mu |-> musum[r],
                                        y |-> ysum[r]], GlobalPlane(r, pos[r]))
       IN  /\ nsum' = [nsum EXCEPT ![r] = acc.n]
           /\ xsum' = [xsum EXCEPT ![r] = acc.x]
           /\ musum' = [musum EXCEPT ![r] = acc.mu]
           /\ ysum' = [ysum EXCEPT ![r] = acc.y]
    /\ pos' = [pos EXCEPT ![r] = @ + 1]
    /\ UNCHANGED <<cfg, call, pc, out, hist>>
    /\ UNCHANGED svars

RECURSIVE SumRanks(_, _)
SumRanks(f, S) ==
    IF S = {} THEN 0 ELSE LET r == CHOOSE q \in S : TRUE IN f[r] + SumRanks(f, S \ {r})

\* variant of Allreduce that returns the value of the root
AllreduceRoot(f) == f[0]

\* comm.allreduce of one number: the sum over the ranks
Allreduce(f) == SumRanks(f, Ranks)

\* comm.allreduce of one entry of a buffer of real (complex) sums
AllreduceVec(f) ==
    LET D == UNION {DOMAIN f[q] : q \in Ranks}
        total == [s \in D |-> Allreduce([q \in Ranks |-> Coef(f[q], s)])]
    IN  [s \in {t \in D : total[t] # 0} |-> total[s]]

AllreduceCVec(f) ==
    LET D == UNION {DOMAIN f[q] : q \in Ranks}
        total == [s \in D |-> <<Allreduce([q \in Ranks |-> CCoef(f[q], s)[1]]),
                                Allreduce([q \in Ranks |-> CCoef(f[q], s)[2]])>>]
    IN  [s \in {t \in D : total[t] # <<0, 0>>} |-> total[s]]

\* variant of LoopsDone where a rank that holds no mode does not reach the
\* reductions
LoopsDoneWithModes ==
    \A r \in Ranks : pc[r] = "loop" /\ pos[r] = LocalCount(r) /\ LocalPlanes(r) # {}

\* every rank has left the loop
LoopsDone == \A r \in Ranks : pc[r] = "loop" /\ pos[r] = LocalCount(r)

\* xsum = comm.allreduce(xsum)
ReduceX ==
    /\ LoopsDone
    /\ LET total == [i \in Rows |-> [j \in Cols |-> AllreduceVec([q \in Ranks |-> xsum[q][i][j]])]]
       IN  xsum' = [r \in Ranks |-> total]
    /\ pc' = [r \in Ranks |-> "musum"]
    /\ UNCHANGED <<cfg, call, pos, nsum, musum, ysum, out, hist>>
    /\ UNCHANGED svars

\* musum = comm.allreduce(musum)
ReduceMu ==
    /\ \A r \in Ranks : pc[r] = "musum"
    /\ LET total == [i \in Rows |-> [j \in Cols |-> AllreduceVec([q \in Ranks |-> musum[q][i][j]])]]
       IN  musum' = [r \in Ranks |-> total]
    /\ pc' = [r \in Ranks |-> "ysum"]
    /\ UNCHANGED <<cfg, call, pos, nsum, xsum, ysum, out, hist>>
    /\ UNCHANGED svars

\* ysum = comm.allreduce(ysum)
ReduceY ==
    /\ \A r \in Ranks : pc[r] = "ysum"
    /\ LET total == [l \in DOMAIN Ells |-> [i \in Rows |-> [j \in Cols |->
                       AllreduceCVec([q \in Ranks |-> ysum[q][l][i][j]])]]]
       IN  ysum' = [r \in Ranks |-> total]
    /\ pc' = [r \in Ranks |-> "nsum"]
    /\ UNCHANGED <<cfg, call, pos, nsum, xsum, musum, out, hist>>
    /\ UNCHANGED svars

\* nsum = comm.allreduce(nsum)
ReduceN ==
    /\ \A r \in Ranks : pc[r] = "nsum"
    /\ LET total == [i \in Rows |-> [j \in Cols |-> Allreduce([q \in Ranks |-> nsum[q][i][j]])]]
       IN  nsum' = [r \in Ranks |-> total]
    /\ pc' = [r \in Ranks |-> "finish"]
    /\ UNCHANGED <<cfg, call, pos, xsum, musum, ysum, out, hist>>
    /\ UNCHANGED svars

\* the rest of project_to_basis, local to the rank
Return(r) ==
    /\ pc[r] = "finish"
    /\ out' = [out EXCEPT ![r] =
                 <<Finish(nsum[r], xsum[r], musum[r], ysum[r], cfg.xedges, cfg.muedges,
                          cfg.ells, Ells, cfg.poles, cfg.exclude_zero)>>]
    /\ pc' = [pc EXCEPT ![r] = "done"]
    /\ UNCHANGED <<cfg, call, pos, nsum, xsum, musum, ysum, hist>>
    /\ UNCHANGED svars

\* project_to_basis is called again, on the same global field
NextCall ==
    /\ \A r \in Ranks : pc[r] = "done"
    /\ call < Len(Calls)
    /\ call' = call + 1
    /\ hist' = Append(hist, out[0][1])
    /\ pc' = [r \in Ranks |-> "loop"]
    /\ pos' = [r \in Ranks |-> 0]
    /\ nsum' = [r \in Ranks |-> ZeroBuffers.n]
    /\ xsum' = [r \in Ranks |-> ZeroBuffers.x]
    /\ musum' = [r \in Ranks |-> ZeroBuffers.mu]
    /\ ysum' = [r \in Ranks |-> ZeroBuffers.y]
    /\ out' = [r \in Ranks |-> <<>>]
    /\ UNCHANGED cfg
    /\ UNCHANGED svars

Next ==
    \/ \E r \in Ranks : Plane(r)
    \/ ReduceX
    \/ ReduceMu
    \/ ReduceY
    \/ ReduceN
    \/ \E r \in Ranks : Return(r)
    \/ NextCall

Spec == Init /\ [][Next]_vars

\* the positions of a rank in project_to_basis, in order: "loop" up to the
\* reduction of xsum, then before the reductions of musum, ysum and nsum
Successor ==
    [loop |-> "musum", musum |-> "ysum", ysum |-> "nsum", nsum |-> "finish",
     finish |-> "done", done |-> "loop"]

\* where the ranks are
ctl == <<pc, pos, call>>

\* the steps of Next as seen on pc, pos and call, under the same conditions:
\* a rank runs one iteration of its loop, a reduction returns on every rank
\* once every rank has entered it, a rank finishes, a new call is made
Advance ==
    \/ \E r \in Ranks : /\ pc[r] = "loop" /\ pos[r] < LocalCount(r)
                        /\ pos' = [pos EXCEPT ![r] = @ + 1] /\ pc' = pc /\ call' = call
    \/ LoopsDone /\ pc' = [r \in Ranks |-> "musum"] /\ pos' = pos /\ call' = call
    \/ \E at \in {"musum", "ysum", "nsum"} :
          /\ \A r \in Ranks : pc[r] = at
          /\ pc' = [r \in Ranks |-> Successor[at]] /\ pos' = pos /\ call' = call
    \/ \E r \in Ranks : /\ pc[r] = "finish"
                        /\ pc' = [pc EXCEPT ![r] = "done"] /\ pos' = pos /\ call' = call
    \/ /\ \A r \in Ranks : pc[r] = "done"
       /\ call < Len(Calls)
       /\ call' = call + 1 /\ pc' = [r \in Ranks |-> "loop"] /\ pos' = [r \in Ranks |-> 0]

\* every rank goes on running its code, and a collective call returns once
\* every rank has entered it: a step that can be taken is taken in the end
FairSpec == Spec /\ WF_ctl(Advance)

(***************************************************************************)
(* Properties of the accumulation.                                         *)
(***************************************************************************)
\* the terms rank r has accumulated so far: <<mode, pass>>, pass 1 being the
\* Hermitian mirror pass of a compressed field
Accumulated(r) ==
    LET planes == {GlobalPlane(r, p) : p \in {q \in 0..(pos[r] - 1) : ~EmptySlab(r, q)}}
        modes == {SlabMode(i, j) : i \in planes, j \in 0..(SlabSize - 1)}
    IN  {<<k, 0>> : k \in modes} \cup
        (IF Compressed THEN {<<k, 1>> : k \in {q \in modes : q[3] > 0}} ELSE {})

\* sqrt(n2) < edge
NormBelow(n2, e) == e[1] > 0 /\ e[2] * e[2] * n2 < e[1] * e[1]

\* the row of the buffers where a mode of squared norm n2 belongs:
\* nx + 2 below half a cell, 0 below the first edge, i for
\* xedges[i] <= x < xedges[i+1] (numbered from 1), nx + 1 from the last edge on
ExpectedRow(n2) ==
    IF n2 = 0 THEN Nx + 2
    ELSE IF NormBelow(n2, cfg.xedges[1]) THEN 0
    ELSE IF ~NormBelow(n2, cfg.xedges[Nx + 1]) THEN Nx + 1
    ELSE CHOOSE i \in 1..Nx : ~NormBelow(n2, cfg.xedges[i]) /\ NormBelow(n2, cfg.xedges[i + 1])

RowCount(r, i) == SumInt(nsum[r][i], 0, Nmu + 2)

\* C1: while a rank accumulates, each row of its count buffer holds exactly
\* the accumulated terms whose norm x satisfies xedges[i] <= x < xedges[i+1]
\* (row 0: x below the first edge, row nx + 1: x at or beyond the last edge,
\* neither is returned), and the modes below half a cell are all in the
\* zero row nx + 2 and in no other row
C1_XBinning ==
    \A r \in Ranks : pc[r] = "loop" =>
        \A i \in Rows :
            RowCount(r, i) = Cardinality({t \in Accumulated(r) : ExpectedRow(Norm2(t[1])) = i})

\* a rank has accumulated a mode whose norm is exactly an inner x-edge, in
\* the bin that starts at this edge, and the zero mode in the zero row
C1_Witness ==
    \E r \in Ranks :
        /\ pc[r] = "loop"
        /\ cfg.xedges[2] = <<1, 1>>
        /\ \E t \in Accumulated(r) : Norm2(t[1]) = 1
        /\ RowCount(r, 2) > 0
        /\ RowCount(r, 1) = 0
        /\ nsum[r][Nx + 2][Nmu + 2] = 1

\* cosine sign * m / sqrt(n2) < edge
MuBelow(m, n2, e) == ~EdgeLeqMu(e, m, n2)

\* the cosine (as a numerator over sqrt(n2)) of an accumulated term
TermMu(t) == (IF t[2] = 1 THEN -1 ELSE 1) * Dot(t[1], cfg.los)

\* the column where a term belongs: nmu + 2 for the zero mode, 0 below the
\* first edge, nmu + 1 above the last edge, else j with
\* muedges[j] <= mu < muedges[j+1], the last bin being closed on both ends
ExpectedCol(t) ==
    LET n2 == Norm2(t[1])
        m == TermMu(t)
    IN  IF n2 = 0 THEN Nmu + 2
        ELSE IF MuBelow(m, n2, cfg.muedges[1]) THEN 0
        ELSE IF MuEqEdge(cfg.muedges[Nmu + 1], m, n2) THEN Nmu
        ELSE IF ~MuBelow(m, n2, cfg.muedges[Nmu + 1]) THEN Nmu + 1
        ELSE CHOOSE j \in 1..Nmu : ~MuBelow(m, n2, cfg.muedges[j]) /\ MuBelow(m, n2, cfg.muedges[j + 1])

ColCount(r, j) == SumInt([i \in Rows |-> nsum[r][i][j]], 0, Nx + 2)

\* C2: while a rank accumulates, each column of its count buffer holds
\* exactly the accumulated terms (direct and mirror pass) whose mu satisfies
\* muedges[j] <= mu < muedges[j+1], and for the last bin
\* muedges[-2] <= mu <= muedges[-1]
C2_MuBinning ==
    \A r \in Ranks : pc[r] = "loop" =>
        \A j \in Cols :
            ColCount(r, j) = Cardinality({t \in Accumulated(r) : ExpectedCol(t) = j})

\* a rank has accumulated, in the direct pass and in the mirror pass, a mode
\* whose mu is exactly the last mu-edge, this edge not being 1
C2_Witness ==
    \E r \in Ranks :
        /\ pc[r] = "loop"
        /\ cfg.muedges[Nmu + 1] # <<1, 1>>
        /\ \E t \in Accumulated(r) :
              t[2] = 0 /\ Norm2(t[1]) > 0 /\ MuEqEdge(cfg.muedges[Nmu + 1], TermMu(t), Norm2(t[1]))
        /\ \E t \in Accumulated(r) :
              t[2] = 1 /\ MuEqEdge(cfg.muedges[Nmu + 1], TermMu(t), Norm2(t[1]))
        /\ ColCount(r, Nmu) > 0

(***************************************************************************)
(* Properties of the returned bins.                                        *)
(***************************************************************************)
Returned(r) == pc[r] = "done"

\* edge p/q >= Nyquist
BeyondNyquist(e) == e[1] >= Nyquist * e[2]

\* the zero mode is folded into bin (i, j) of the returned arrays
FoldedIn(i, j) == ~cfg.exclude_zero /\ DigZero(cfg.xedges, cfg.muedges) = <<i, j>>

\* count of the zero mode in the reduced buffer
ZeroCount(r) == nsum[r][Nx + 2][Nmu + 2]

\* what bin (i, j) holds if it is left alone: the reduced sums, and the zero
\* mode if it is folded there
KeptCount(r, i, j) == nsum[r][i][j] + (IF FoldedIn(i, j) THEN ZeroCount(r) ELSE 0)

KeptX(r, i, j) ==
    IF FoldedIn(i, j) THEN AddVec(xsum[r][i][j], xsum[r][Nx + 2][Nmu + 2]) ELSE xsum[r][i][j]

KeptMu(r, i, j) ==
    IF FoldedIn(i, j) THEN AddVec(musum[r][i][j], musum[r][Nx + 2][Nmu + 2]) ELSE musum[r][i][j]

KeptY(r, i, j) ==
    IF FoldedIn(i, j) THEN AddCVec(ysum[r][1][i][j], ysum[r][1][Nx + 2][Nmu + 2]) ELSE ysum[r][1][i][j]

IsNaN(q) == q.kind = "nan"

\* bin (i, j) is returned as the averages of what it accumulated
BinKept(r, i, j) ==
    LET o == out[r][1]
        n == KeptCount(r, i, j)
    IN  /\ o.n2d[i][j] = n
        /\ o.xmean2d[i][j] = Divide(Finite(KeptX(r, i, j)), n, ZeroVec)
        /\ o.mumean2d[i][j] = Divide(Finite(KeptMu(r, i, j)), n, ZeroVec)
        /\ o.y2d[i][j] = Divide(Finite(KeptY(r, i, j)), n, ZeroCVec)

\* bin (i, j) is returned with NaN averages
BinNaN(r, i, j) ==
    LET o == out[r][1]
    IN  IsNaN(o.xmean2d[i][j]) /\ IsNaN(o.mumean2d[i][j]) /\ IsNaN(o.y2d[i][j])

\* C3 as stated: the x-bins with lower edge at or beyond Nyquist, and only
\* they, are returned with NaN averages and a zero count; the x-bins with
\* lower edge below Nyquist keep their accumulated count and sums
C3_LowerEdgeMasked ==
    \A r \in Ranks : Returned(r) =>
        \A i \in 1..Nx, j \in 1..Nmu :
            IF BeyondNyquist(cfg.xedges[i])
            THEN BinNaN(r, i, j) /\ out[r][1].n2d[i][j] = 0
            ELSE BinKept(r, i, j)

\* C3 amended: the x-bins with upper edge at or beyond Nyquist, and only
\* they, are returned with NaN averages and with no mode counted but the
\* zero mode where it is folded; the x-bins with upper edge below Nyquist
\* keep their accumulated count and sums
C3_UpperEdgeMasked ==
    \A r \in Ranks : Returned(r) =>
        \A i \in 1..Nx, j \in 1..Nmu :
            IF BeyondNyquist(cfg.xedges[i + 1])
            THEN /\ BinNaN(r, i, j)
                 /\ out[r][1].n2d[i][j] = (IF FoldedIn(i, j) THEN ZeroCount(r) ELSE 0)
            ELSE BinKept(r, i, j) /\ (nsum[r][i][j] > 0 => ~BinNaN(r, i, j))

\* a call has returned a bin that holds modes, whose lower edge is below
\* Nyquist and whose upper edge is exactly Nyquist, with NaN averages
C3_Witness ==
    \E r \in Ranks :
        /\ Returned(r)
        /\ \E i \in 1..Nx, j \in 1..Nmu :
              /\ ~BeyondNyquist(cfg.xedges[i])
              /\ cfg.xedges[i + 1] = <<Nyquist, 1>>
              /\ nsum[r][i][j] > 0
              /\ BinNaN(r, i, j)

\* the modes of the full (uncompressed) mesh
FullGrid == Freq \X Freq \X Freq

\* x-edges start at 0, mu-edges span [-1, 1], the zero mode is not excluded
ValidEdges ==
    /\ cfg.xedges[1][1] = 0
    /\ cfg.muedges[1] = <<-1, 1>>
    /\ cfg.muedges[Nmu + 1] = <<1, 1>>
    /\ ~cfg.exclude_zero

\* the x-bins that are not marked invalid
ValidBins == {i \in 1..Nx : ~BeyondNyquist(cfg.xedges[i + 1])}

RECURSIVE SumBins(_, _)
\* sum of the returned counts over the x-bins of S
SumBins(n2d, S) ==
    IF S = {} THEN 0
    ELSE LET i == CHOOSE q \in S : TRUE
         IN  SumInt(n2d[i], 1, Nmu) + SumBins(n2d, S \ {i})

LastValidEdge == cfg.xedges[1 + Cardinality(ValidBins)]

SymmetricField ==
    \/ cfg.field \in {"herm", "impulse"} /\ ~cfg.antisymmetric
    \/ cfg.field = "anti" /\ cfg.antisymmetric

\* C5: for a Hermitian symmetric (antisymmetric) field, a call on the
\* compressed storage and a call on the uncompressed field return the same
\* counts, averages, multipoles and zero-mode values
C5_CompressedEqualsUncompressed ==
    \A r \in Ranks : (Returned(r) /\ SymmetricField) =>
        \A c \in 1..Len(hist) :
            Calls[c].compressed # Compressed => out[r][1] = hist[c]

\* a call on the uncompressed field has returned after a call on the
\* compressed storage of a field with nonzero imaginary part, with multipoles
\* and a bin below Nyquist that holds mirrored modes
C5_Witness ==
    /\ Returned(1)
    /\ ~Compressed
    /\ Len(hist) > 0
    /\ Calls[1].compressed
    /\ cfg.field = "anti"
    /\ cfg.poles
    /\ \E i \in ValidBins, j \in 1..Nmu :
          hist[1].n2d[i][j] > 1 /\ hist[1].y2d[i][j].kind = "finite"

\* C6: for a fixed global field and fixed edges, every rank returns the same
\* result, and a later call with the same storage returns it again whatever
\* the partition of the planes among the ranks
C6_PartitionIndependent ==
    /\ \A r, q \in Ranks : (Returned(r) /\ Returned(q)) => out[r] = out[q]
    /\ \A r \in Ranks : Returned(r) =>
          \A c \in 1..Len(hist) :
              Calls[c].compressed = Compressed => out[r][1] = hist[c]

\* a call where a rank held no plane has returned on both ranks, after a call
\* with the same storage where both ranks held planes
C6_Witness ==
    /\ \A r \in Ranks : Returned(r)
    /\ \E r \in Ranks : LocalCount(r) = 0
    /\ \E c \in 1..Len(hist) :
          /\ Calls[c].compressed = Compressed
          /\ \A r \in Ranks : \E i \in 0..(Nmesh - 1) : Calls[c].owner[i] = r
    /\ \E i \in ValidBins, j \in 1..Nmu : out[0][1].n2d[i][j] > 1

\* the bin that contains 0 under the rule of ordinary modes: half-open
\* x-bins, half-open mu-bins but for the last one, closed
ZeroInBin(i, j) ==
    /\ EdgeLeqZero(cfg.xedges[i]) /\ ~EdgeLeqZero(cfg.xedges[i + 1])
    /\ EdgeLeqZero(cfg.muedges[j])
    /\ \/ ~EdgeLeqZero(cfg.muedges[j + 1])
       \/ j = Nmu /\ cfg.muedges[j + 1][1] = 0

\* C7: without exclude_zero the count of the zero mode is added to the bin
\* that contains 0 on both axes under the binning rule of ordinary modes, and
\* to no other bin; with exclude_zero no returned bin counts it; the value of
\* the zero mode is returned apart in both cases
C7_ZeroModeFolded ==
    \A r \in Ranks : Returned(r) =>
        /\ \A i \in 1..Nx, j \in 1..Nmu :
              out[r][1].n2d[i][j] =
                  (IF i \in out[r][1].masked THEN 0 ELSE nsum[r][i][j])
                  + (IF ~cfg.exclude_zero /\ ZeroInBin(i, j) THEN ZeroCount(r) ELSE 0)
        /\ out[r][1].zero2d = ysum[r][1][Nx + 2][Nmu + 2]
        /\ out[r][1].zero2d = (0 :> FieldValue(cfg.field, <<0, 0, 0>>))

(***************************************************************************)
(* Power spectrum statistics (BasePowerSpectrumStatistics and its          *)
(* subclasses).  A floating point number is a pair <<n, d>>: the fraction  *)
(* n / d in lowest terms when d > 0, NaN for <<0, 0>>, +inf and -inf for   *)
(* <<1, 0>> and <<-1, 0>>.  An entry of an array is a pair of such numbers, *)
(* real and imaginary part; in an array of real dtype the imaginary part   *)
(* is Absent, and stays so in every operation.                             *)
(***************************************************************************)
NaN == <<0, 0>>

Absent == <<0, -1>>

Abs(i) == IF i < 0 THEN -i ELSE i

Sign(i) == IF i > 0 THEN 1 ELSE IF i < 0 THEN -1 ELSE 0

RECURSIVE Gcd(_, _)
Gcd(a, b) == IF b = 0 THEN a ELSE Gcd(b, a % b)

\* the number n / d, d # 0 or not
Frac(n, d) ==
    IF d = 0 THEN <<Sign(n), 0>>
    ELSE LET g == Gcd(Abs(n), Abs(d))
         IN  <<Sign(d) * (n \div g), Abs(d) \div g>>

Real(i) == <<i, 1>>

NumIsNan(a) == a = NaN

NumIsInf(a) == a[2] = 0 /\ a[1] # 0

NNeg(a) == IF a = Absent THEN Absent ELSE <<-a[1], a[2]>>

NAdd(a, b) ==
    IF a = Absent \/ b = Absent THEN Absent
    ELSE IF NumIsNan(a) \/ NumIsNan(b) THEN NaN
    ELSE IF NumIsInf(a) /\ NumIsInf(b) THEN (IF a = b THEN a ELSE NaN)
    ELSE IF NumIsInf(a) THEN a
    ELSE IF NumIsInf(b) THEN b
    ELSE Frac(a[1] * b[2] + b[1] * a[2], a[2] * b[2])

NSub(a, b) == NAdd(a, NNeg(b))

NMul(a, b) ==
    IF a = Absent \/ b = Absent THEN Absent
    ELSE IF NumIsNan(a) \/ NumIsNan(b) THEN NaN
    ELSE IF NumIsInf(a) \/ NumIsInf(b) THEN Frac(Sign(a[1]) * Sign(b[1]), 0)
    ELSE Frac(a[1] * b[1], a[2] * b[2])

NDiv(a, b) ==
    IF a = Absent \/ b = Absent THEN Absent
    ELSE IF NumIsNan(a) \/ NumIsNan(b) THEN NaN
    ELSE IF NumIsInf(b) THEN (IF NumIsInf(a) THEN NaN ELSE Real(0))
    ELSE IF NumIsInf(a) THEN (IF b[1] < 0 THEN NNeg(a) ELSE a)
    ELSE Frac(a[1] * b[2], a[2] * b[1])

CAdd(a, b) == <<NAdd(a[1], b[1]), NAdd(a[2], b[2])>>

CSub(a, b) == <<NSub(a[1], b[1]), NSub(a[2], b[2])>>

\* complex minus real
CSubReal(a, x) == <<NSub(a[1], x), a[2]>>

\* complex times, or divided by, a real
CMulReal(a, x) == <<NMul(a[1], x), NMul(a[2], x)>>

CDivReal(a, x) == <<NDiv(a[1], x), NDiv(a[2], x)>>

CZero == <<Real(0), Real(0)>>

\* _nan_to_zero on one entry: np.isnan of a complex is true if a part is NaN
NanToZero(a) ==
    IF NumIsNan(a[1]) \/ NumIsNan(a[2])
    THEN <<Real(0), IF a[2] = Absent THEN Absent ELSE Real(0)>>
    ELSE a

(***************************************************************************)
(* A statistic is a record: kind ("wedge" or "multipole"), ells, iscomplex *)
(* (dtype of the power arrays), edges (one sequence per axis), modes (one  *)
(* array per axis), nmodes, power_nonorm and power_direct_nonorm (one      *)
(* array per leading index: per multipole, or a single one for wedges),    *)
(* power_zero_nonorm (one value per leading index), wnorm,                 *)
(* shotnoise_nonorm.  An array is a function of the index tuples of its    *)
(* shape; ashape is the shape of nmodes (the trailing shape of the arrays, *)
(* which the methods slice and reshape together).                          *)
(***************************************************************************)
\* BasePowerSpectrumStatistics.ndim
NDim(st) == Len(st.edges)

\* BasePowerSpectrumStatistics.shape
Shape(st) == [a \in 1..Len(st.edges) |-> Len(st.edges[a]) - 1]

\* index tuples of an array of the given shape (numbered from 1)
Indices(shape) ==
    IF Len(shape) = 1 THEN {<<i>> : i \in 1..shape[1]}
    ELSE {<<i, j>> : i \in 1..shape[1], j \in 1..shape[2]}

Lead(st) == DOMAIN st.power_nonorm

\* np.digitize(0., edges, right=False) for the edges of a statistic
DigitizeEdges(edges) == Cardinality({j \in DOMAIN edges : edges[j] <= 0})

\* dig_zero of get_power, numbered from 1: per axis np.digitize(0., edges) - 1 + 1
StatDigZero(st) == [a \in 1..NDim(st) |-> DigitizeEdges(st.edges[a])]

\* 0 <= dig_zero[ii] < self.shape[ii] on every axis
ZeroInside(st) == \A a \in 1..NDim(st) : 1 <= StatDigZero(st)[a] /\ StatDigZero(st)[a] <= Shape(st)[a]

RealPart(z) == <<z[1], Absent>>

ImagPart(z) == <<z[2], Absent>>

\* entry t of leading index l of the array BasePowerSpectrumStatistics.get_power
\* computes, the whole-array operations being entrywise
BaseGetPowerEntry(st, f, l, t) ==
    LET direct == IF f.add_direct
                  THEN CAdd(st.power_nonorm[l][t], st.power_direct_nonorm[l][t])
                  ELSE st.power_nonorm[l][t]
        noshot == IF f.remove_shotnoise THEN CSubReal(direct, st.shotnoise_nonorm) ELSE direct
        nulled == IF f.null_zero_mode /\ ZeroInside(st) /\ t = StatDigZero(st)
                  THEN CSub(noshot, CDivReal(st.power_zero_nonorm[l],
                                             Real(st.nmodes[StatDigZero(st)])))
                  ELSE noshot
        normed == IF f.divide_wnorm THEN CDivReal(nulled, st.wnorm) ELSE nulled
    IN  IF ~f.complex /\ st.iscomplex THEN RealPart(normed) ELSE normed

\* the array BasePowerSpectrumStatistics.get_power computes
BaseGetPowerArray(st, f) ==
    [l \in Lead(st) |-> [t \in Indices(Shape(st)) |-> BaseGetPowerEntry(st, f, l, t)]]

\* variant of BaseGetPower that works on power_nonorm itself instead of a copy
BaseGetPowerInPlace(st, f) ==
    [self |-> [st EXCEPT !.power_nonorm = BaseGetPowerArray(st, f)],
     toret |-> BaseGetPowerArray(st, f)]

\* BasePowerSpectrumStatistics.get_power: the statistic after the call (toret
\* is a copy of power_nonorm) and the returned array
BaseGetPower(st, f) == [self |-> st, toret |-> BaseGetPowerArray(st, f)]

\* list.index
ListIndex(seq, v) == CHOOSE i \in DOMAIN seq : seq[i] = v /\ \A j \in 1..(i - 1) : seq[j] # v

\* entry t of multipole l of the array PowerSpectrumMultipoles.get_power computes
\* from toret, the array the base class returned
PolesGetPowerEntry(st, f, toret, l, t) ==
    LET noshot == IF f.remove_shotnoise /\ (\E i \in DOMAIN st.ells : st.ells[i] = 0)
                     /\ l = ListIndex(st.ells, 0)
                  THEN CSubReal(toret[l][t], st.shotnoise_nonorm)
                  ELSE toret[l][t]
        normed == IF f.divide_wnorm THEN CDivReal(noshot, st.wnorm) ELSE noshot
    IN  IF ~f.complex /\ st.iscomplex
        THEN (IF st.ells[l] % 2 = 0 THEN RealPart(normed) ELSE ImagPart(normed))
        ELSE normed

\* PowerSpectrumMultipoles.get_power
PolesGetPower(st, f) ==
    LET base == BaseGetPower(st, [f EXCEPT !.remove_shotnoise = FALSE, !.divide_wnorm = FALSE,
                                           !.complex = TRUE])
    IN  [self |-> base.self,
         toret |-> [l \in Lead(st) |-> [t \in Indices(Shape(st)) |->
                      PolesGetPowerEntry(st, f, base.toret, l, t)]]]

\* get_power of the class of the statistic
GetPower(st, f) == IF st.kind = "multipole" THEN PolesGetPower(st, f) ELSE BaseGetPower(st, f)

\* the old bins merged into new bin t when rebinning by factor
Group(t, factor) ==
    IF Len(t) = 1 THEN {<<i>> : i \in ((t[1] - 1) * factor[1] + 1)..(t[1] * factor[1])}
    ELSE {<<i, j>> : i \in ((t[1] - 1) * factor[1] + 1)..(t[1] * factor[1]),
                     j \in ((t[2] - 1) * factor[2] + 1)..(t[2] * factor[2])}

RECURSIVE SumIntOver(_, _)
SumIntOver(arr, S) ==
    IF S = {} THEN 0 ELSE LET u == CHOOSE v \in S : TRUE IN arr[u] + SumIntOver(arr, S \ {u})

RECURSIVE SumComplexOver(_, _)
SumComplexOver(arr, S) ==
    IF S = {} THEN CZero
    ELSE LET u == CHOOSE v \in S : TRUE IN CAdd(arr[u], SumComplexOver(arr, S \ {u}))

\* utils.rebin(array, new_shape, statistic=np.sum) of an array of integers,
\* with new_shape = shape // factor
UtilsRebinInt(arr, new_shape, factor) ==
    [t \in Indices(new_shape) |-> SumIntOver(arr, Group(t, factor))]

\* utils.rebin(array, new_shape, statistic=np.sum) of an array of floats
UtilsRebin(arr, new_shape, factor) ==
    [t \in Indices(new_shape) |-> SumComplexOver(arr, Group(t, factor))]

\* factor of rebin once padded with ones
PadFactor(st, factor) ==
    [a \in 1..(IF Len(factor) > NDim(st) THEN Len(factor) ELSE NDim(st)) |->
        IF a <= Len(factor) THEN factor[a] ELSE 1]

\* rebin raises ValueError
RebinRaises(st, factor) ==
    \/ Len(PadFactor(st, factor)) > NDim(st)
    \/ \E a \in 1..NDim(st) : Shape(st)[a] % PadFactor(st, factor)[a] # 0

\* utils.rebin is asked for a new shape with no bin on some axis, where it
\* divides by that number
RebinOfEmpty(st) == \E a \in 1..NDim(st) : Shape(st)[a] = 0

\* utils.rebin cannot reshape: the shape derived from the edges is negative
RebinOfBroken(st) == \E a \in 1..NDim(st) : Shape(st)[a] < 0

\* variant of RebinAverage: the plain mean of the merged values
RebinPlainMean(arr, nmodes, new_nmodes, new_shape, factor) ==
    LET summed == UtilsRebin([u \in DOMAIN arr |-> NanToZero(arr[u])], new_shape, factor)
    IN  [t \in Indices(new_shape) |-> CDivReal(summed[t], Real(Cardinality(Group(t, factor))))]

\* one averaged array of rebin
RebinAverage(arr, nmodes, new_nmodes, new_shape, factor) ==
    LET weighted == [u \in DOMAIN arr |-> CMulReal(NanToZero(arr[u]), Real(nmodes[u]))]
        summed == UtilsRebin(weighted, new_shape, factor)
    IN  [t \in Indices(new_shape) |-> CDivReal(summed[t], Real(new_nmodes[t]))]

\* BasePowerSpectrumStatistics.rebin, when it does not raise
Rebin(st, factor) ==
    LET fac == PadFactor(st, factor)
        new_shape == [a \in 1..NDim(st) |-> Shape(st)[a] \div fac[a]]
        nmodes == st.nmodes
        new_nmodes == UtilsRebinInt(nmodes, new_shape, fac)
    IN  [st EXCEPT
           !.ashape = new_shape,
           !.nmodes = new_nmodes,
           !.modes = [a \in DOMAIN st.modes |->
                        RebinAverage(st.modes[a], nmodes, new_nmodes, new_shape, fac)],
           !.power_nonorm = [l \in Lead(st) |->
                        RebinAverage(st.power_nonorm[l], nmodes, new_nmodes, new_shape, fac)],
           !.power_direct_nonorm = [l \in Lead(st) |->
                        RebinAverage(st.power_direct_nonorm[l], nmodes, new_nmodes, new_shape, fac)],
           !.edges = [a \in 1..NDim(st) |->
                        [i \in 1..(new_shape[a] + 1) |-> st.edges[a][(i - 1) * fac[a] + 1]]]]

\* a Python slice: start, stop and step are <<>> (None) or <<i>>
SliceNone == [start |-> <<>>, stop |-> <<>>, step |-> <<>>]

\* one bound of slice.indices(n) for a positive step
ClipBound(b, n, default) ==
    IF b = <<>> THEN default
    ELSE IF b[1] < 0 THEN (IF b[1] + n < 0 THEN 0 ELSE b[1] + n)
    ELSE IF b[1] > n THEN n ELSE b[1]

\* start, stop, step = sl.indices(n), the step being positive
SliceIndices(sl, n) ==
    [start |-> ClipBound(sl.start, n, 0), stop |-> ClipBound(sl.stop, n, n),
     step |-> IF sl.step = <<>> THEN 1 ELSE sl.step[1]]

\* inslices of slice: the slices padded with slice(None)
PadSlices(st, slices) ==
    [a \in 1..(IF Len(slices) > NDim(st) THEN Len(slices) ELSE NDim(st)) |->
        IF a <= Len(slices) THEN slices[a] ELSE SliceNone]

\* len(seq[start:stop]) for 0 <= start, stop
SliceLen(start, stop, len) ==
    LET end == IF stop > len THEN len ELSE stop
    IN  IF end > start THEN end - start ELSE 0

\* index of the old array that entry t of array[slices] comes from
Unsliced(t, ix) == [a \in DOMAIN t |-> t[a] + ix[a].start]

\* the arrays and edges of slice, cut with steps of 1
SliceArrays(st, ix) ==
    LET new_shape == [a \in 1..NDim(st) |-> SliceLen(ix[a].start, ix[a].stop, st.ashape[a])]
        idx == Indices(new_shape)
    IN  [st EXCEPT
           !.ashape = new_shape,
           !.nmodes = [t \in idx |-> st.nmodes[Unsliced(t, ix)]],
           !.modes = [a \in DOMAIN st.modes |-> [t \in idx |-> st.modes[a][Unsliced(t, ix)]]],
           !.power_nonorm = [l \in Lead(st) |-> [t \in idx |->
                                st.power_nonorm[l][Unsliced(t, ix)]]],
           !.power_direct_nonorm = [l \in Lead(st) |-> [t \in idx |->
                                st.power_direct_nonorm[l][Unsliced(t, ix)]]],
           !.edges = [a \in 1..NDim(st) |->
                        [i \in 1..SliceLen(ix[a].start, ix[a].stop + 1, Len(st.edges[a])) |->
                            st.edges[a][i + ix[a].start]]]]

\* self.rebin(factor) called by slice: the statistic after it and whether it raised
RebinCalled(st, factor, empty_raises) ==
    IF RebinRaises(st, factor) \/ RebinOfBroken(st) \/ (RebinOfEmpty(st) /\ empty_raises)
    THEN [self |-> st, raised |-> TRUE]
    ELSE [self |-> Rebin(st, factor), raised |-> FALSE]

\* BasePowerSpectrumStatistics.slice: the statistic after the call and whether
\* the call raised
Slice(st, slices, empty_raises) ==
    LET inslices == PadSlices(st, slices)
    IN  IF Len(inslices) > NDim(st) THEN [self |-> st, raised |-> TRUE]
        ELSE LET ix == [a \in 1..NDim(st) |-> SliceIndices(inslices[a], st.ashape[a])]
             IN  IF \E a \in 1..NDim(st) : ix[a].step < 0 THEN [self |-> st, raised |-> TRUE]
                 ELSE IF \A a \in 1..NDim(st) : ix[a].step = 1
                 THEN [self |-> SliceArrays(st, ix), raised |-> FALSE]
                 ELSE RebinCalled(SliceArrays(st, ix), [a \in 1..NDim(st) |-> ix[a].step],
                                  empty_raises)

\* a <= b on floats: false if one is NaN
NLeq(a, b) ==
    IF NumIsNan(a) \/ NumIsNan(b) THEN FALSE
    ELSE IF NumIsInf(a) THEN (a[1] < 0 \/ a = b)
    ELSE IF NumIsInf(b) THEN b[1] > 0
    ELSE a[1] * b[2] <= b[1] * a[2]

\* the entries of an array at index i on the axis
AlongAxis(st, axis, i) == {t \in Indices(st.ashape) : t[axis] = i}

\* BasePowerSpectrumStatistics.modeavg(axis, method=None), entry i
ModeAvg(st, axis, i) ==
    LET weighted == [t \in Indices(st.ashape) |->
                        CMulReal(NanToZero(st.modes[axis][t]), Real(st.nmodes[t]))]
    IN  NDiv(SumComplexOver(weighted, AlongAxis(st, axis, i))[1],
             Real(SumIntOver(st.nmodes, AlongAxis(st, axis, i))))

\* variant of SelectIndices with the limits excluded
SelectIndicesOpen(st, axis, xlim) ==
    {i \in 1..st.ashape[axis] :
        /\ NLeq(xlim[1], ModeAvg(st, axis, i)) /\ xlim[1] # ModeAvg(st, axis, i)
        /\ NLeq(ModeAvg(st, axis, i), xlim[2]) /\ xlim[2] # ModeAvg(st, axis, i)}

\* np.flatnonzero((x >= xlim[0]) & (x <= xlim[1])), numbered from 1
SelectIndices(st, axis, xlim) ==
    {i \in 1..st.ashape[axis] :
        NLeq(xlim[1], ModeAvg(st, axis, i)) /\ NLeq(ModeAvg(st, axis, i), xlim[2])}

Min(S) == CHOOSE i \in S : \A j \in S : i <= j

Max(S) == CHOOSE i \in S : \A j \in S : j <= i

\* the slice select builds for one axis; a limit is <<>> (None) or <<lo, hi>>
SelectSlice(st, axis, xlim) ==
    IF xlim = <<>> THEN SliceNone
    ELSE IF SelectIndices(st, axis, xlim) # {}
    THEN [start |-> <<Min(SelectIndices(st, axis, xlim)) - 1>>,
          stop |-> <<Max(SelectIndices(st, axis, xlim))>>, step |-> <<1>>]
    ELSE [start |-> <<>>, stop |-> <<0>>, step |-> <<>>]

\* BasePowerSpectrumStatistics.select: the statistic after the call and whether
\* the call raised
Select(st, xlims, empty_raises) ==
    IF Len(xlims) > NDim(st) THEN [self |-> st, raised |-> TRUE]
    ELSE Slice(st, [a \in 1..Len(xlims) |-> SelectSlice(st, a, xlims[a])], empty_raises)

\* variant of GetItem that slices the statistic itself
GetItemInPlace(st, slices, empty_raises) ==
    [self |-> Slice(st, slices, empty_raises).self,
     new |-> Slice(st, slices, empty_raises).self,
     raised |-> Slice(st, slices, empty_raises).raised]

\* BasePowerSpectrumStatistics.__getitem__: the statistic after the call, the
\* new instance (a copy, sliced) and whether the call raised
GetItem(st, slices, empty_raises) ==
    [self |-> st,
     new |-> Slice(st, slices, empty_raises).self,
     raised |-> Slice(st, slices, empty_raises).raised]

\* numpy's + on two entries: an entry of real dtype is promoted to complex
PAdd(a, b) ==
    <<NAdd(a[1], b[1]),
      IF a[2] = Absent THEN b[2] ELSE IF b[2] = Absent THEN a[2] ELSE NAdd(a[2], b[2])>>

\* the attributes of _attrs whose name ends with 'nonorm'
NonormNames == <<"power_nonorm", "power_zero_nonorm", "power_direct_nonorm", "shotnoise_nonorm">>

\* x + y for the values of the attribute name (arrays of equal shapes)
AddValue(name, x, y) ==
    IF name \in {"power_nonorm", "power_direct_nonorm"}
    THEN [l \in DOMAIN x |-> [t \in DOMAIN x[l] |-> PAdd(x[l][t], y[l][t])]]
    ELSE IF name = "power_zero_nonorm" THEN [l \in DOMAIN x |-> PAdd(x[l], y[l])]
    ELSE NAdd(x, y)

\* the built-in sum(getattr(other, name) for other in others[:n]): 0 + first + ...
RECURSIVE SumAttr(_, _, _)
SumAttr(others, name, n) ==
    IF n = 1 THEN others[1][name]
    ELSE AddValue(name, SumAttr(others, name, n - 1), others[n][name])

\* numpy raises on adding arrays of shapes that do not broadcast (here: differ)
SumRaises(others) ==
    \E i \in DOMAIN others :
        \/ Lead(others[i]) # Lead(others[1])
        \/ others[i].ashape # others[1].ashape

\* variant of Sum without the deepcopy: the first operand is the result
SumNoCopy(others) ==
    IF SumRaises(others) THEN [others |-> others, raised |-> TRUE, new |-> <<>>]
    ELSE LET new == [others[1] EXCEPT
                        !.power_nonorm = SumAttr(others, "power_nonorm", Len(others)),
                        !.power_zero_nonorm = SumAttr(others, "power_zero_nonorm", Len(others)),
                        !.power_direct_nonorm = SumAttr(others, "power_direct_nonorm", Len(others)),
                        !.shotnoise_nonorm = SumAttr(others, "shotnoise_nonorm", Len(others)),
                        !.wnorm = SumAttr(others, "wnorm", Len(others))]
         IN  [others |-> [others EXCEPT ![1] = new], raised |-> FALSE, new |-> <<new>>]

\* BasePowerSpectrumStatistics.sum(*others): the operands after the call,
\* whether it raised, and the new statistic
Sum(others) ==
    IF SumRaises(others) THEN [others |-> others, raised |-> TRUE, new |-> <<>>]
    ELSE [others |-> others, raised |-> FALSE,
          new |-> <<[others[1] EXCEPT
                        !.power_nonorm = SumAttr(others, NonormNames[1], Len(others)),
                        !.power_zero_nonorm = SumAttr(others, NonormNames[2], Len(others)),
                        !.power_direct_nonorm = SumAttr(others, NonormNames[3], Len(others)),
                        !.shotnoise_nonorm = SumAttr(others, NonormNames[4], Len(others)),
                        !.wnorm = SumAttr(others, "wnorm", Len(others))]>>]

\* __add__: self + other
Add(self, other) == Sum(<<self, other>>)

\* __radd__ with other = 0: 0 + self
RAddZero(self) == [others |-> <<self>>, raised |-> FALSE, new |-> <<self>>]

\* the built-in sum(others[:n]): ((0 + others[0]) + others[1]) + ...
RECURSIVE BuiltinSum(_, _)
BuiltinSum(others, n) ==
    IF n = 1 THEN RAddZero(others[1])
    ELSE LET head == BuiltinSum(others, n - 1)
         IN  IF head.raised THEN [others |-> others, raised |-> TRUE, new |-> <<>>]
             ELSE LET r == Add(head.new[1], others[n])
                  IN  [others |-> [i \in DOMAIN others |->
                                      IF i = n THEN r.others[2]
                                      ELSE IF i < n THEN head.others[i] ELSE others[i]],
                       raised |-> r.raised, new |-> r.new]

(***************************************************************************)
(* Statistics the methods are called on, built as by                       *)
(* BasePowerSpectrumStatistics.__init__ from arrays of either dtype.       *)
(***************************************************************************)
Imag(cplx, i) == IF cplx THEN Real(i) ELSE Absent

MidPoint(edges, i) == <<Frac(edges[i] + edges[i + 1], 2), Absent>>

\* PowerSpectrumMultipoles(edges, modes, power_nonorm, nmodes, ells, ...)
PolesSample(ells, edges, nm, cplx) ==
    LET idx == Indices(<<Len(edges) - 1>>)
    IN  [kind |-> "multipole", ells |-> ells, iscomplex |-> cplx,
         edges |-> <<edges>>, ashape |-> <<Len(edges) - 1>>,
         nmodes |-> [t \in idx |-> nm[t[1]]],
         modes |-> <<[t \in idx |-> IF nm[t[1]] = 0 THEN <<NaN, Absent>> ELSE MidPoint(edges, t[1])]>>,
         power_nonorm |-> [l \in DOMAIN ells |-> [t \in idx |->
             IF nm[t[1]] = 0 THEN <<NaN, IF cplx THEN NaN ELSE Absent>>
             ELSE <<Real(3 * t[1] + l), Imag(cplx, t[1] - 2 * l)>>]],
         power_direct_nonorm |-> [l \in DOMAIN ells |-> [t \in idx |-> <<Real(l), Imag(cplx, 1)>>]],
         power_zero_nonorm |-> [l \in DOMAIN ells |-> <<Real(l + 1), Imag(cplx, l)>>],
         wnorm |-> Real(2), shotnoise_nonorm |-> Real(3)]

NModesRule(rule, i, j) ==
    IF rule = "mixed" THEN (i + j) % 3 ELSE (i + j + 2) % 3

\* PowerSpectrumWedges(edges, modes, power_nonorm, nmodes, ...)
WedgesSample(kedges, muedges, rule, cplx) ==
    LET idx == Indices(<<Len(kedges) - 1, Len(muedges) - 1>>)
        nm == [t \in idx |-> NModesRule(rule, t[1], t[2])]
    IN  [kind |-> "wedge", ells |-> <<>>, iscomplex |-> cplx,
         edges |-> <<kedges, muedges>>, ashape |-> <<Len(kedges) - 1, Len(muedges) - 1>>,
         nmodes |-> nm,
         modes |-> <<[t \in idx |-> IF nm[t] = 0 THEN <<NaN, Absent>> ELSE MidPoint(kedges, t[1])],
                     [t \in idx |-> IF nm[t] = 0 THEN <<NaN, Absent>> ELSE MidPoint(muedges, t[2])]>>,
         power_nonorm |-> <<[t \in idx |->
             IF nm[t] = 0 THEN <<NaN, IF cplx THEN NaN ELSE Absent>>
             ELSE <<Real(t[1] + 2 * t[2]), Imag(cplx, t[1] - t[2])>>]>>,
         power_direct_nonorm |-> <<[t \in idx |-> <<Real(t[2]), Imag(cplx, 1)>>]>>,
         power_zero_nonorm |-> <<<<Real(5), Imag(cplx, 2)>>>>,
         wnorm |-> Real(2), shotnoise_nonorm |-> Real(3)]

EllsSet == {<<2, 1, 0>>, <<1, 3>>}

PolesEdgesSet == {<<0, 1, 2, 3, 4>>}

PolesNModesSet == {<<1, 1, 1, 1>>, <<0, 2, 1, 3>>}

\* k-edges and mu-edges (in units of 1/2) of wedges: 0 in a bin, 0 below the
\* k-edges, 0 the last mu-edge
WedgesEdgesSet ==
    {<<<<0, 1, 2>>, <<-2, -1, 0, 1, 2>>>>, <<<<1, 2, 3>>, <<-2, -1, 0, 1, 2>>>>,
     <<<<0, 1, 2>>, <<-2, -1, 0>>>>}

Samples ==
    {PolesSample(ells, edges, nm, cplx) :
        ells \in EllsSet, edges \in PolesEdgesSet, nm \in PolesNModesSet, cplx \in BOOLEAN}
    \cup {WedgesSample(edges[1], edges[2], rule, cplx) :
        edges \in WedgesEdgesSet, rule \in {"mixed", "shifted"}, cplx \in BOOLEAN}

\* keyword arguments of get_power
Flags == [add_direct : BOOLEAN, remove_shotnoise : BOOLEAN, null_zero_mode : BOOLEAN,
          divide_wnorm : BOOLEAN, complex : BOOLEAN]

\* arguments of rebin: a scalar factor is the tuple of one factor
Factors == {<<1>>, <<2>>, <<3>>, <<4>>, <<1, 2>>, <<2, 2>>, <<1, 4>>, <<1, 1, 1>>}

\* slice(start, stop, step), None being <<>>
Sl(start, stop, step) == [start |-> start, stop |-> stop, step |-> step]

\* arguments of slice and __getitem__
SliceArgs ==
    {<<Sl(<<1>>, <<3>>, <<>>)>>, <<Sl(<<>>, <<-1>>, <<>>)>>, <<Sl(<<3>>, <<1>>, <<>>)>>,
     <<Sl(<<>>, <<0>>, <<>>)>>, <<Sl(<<0>>, <<4>>, <<2>>)>>, <<Sl(<<1>>, <<9>>, <<2>>)>>,
     <<Sl(<<>>, <<>>, <<-1>>)>>, <<SliceNone, Sl(<<-3>>, <<>>, <<>>)>>,
     <<Sl(<<>>, <<1>>, <<>>), Sl(<<>>, <<>>, <<2>>)>>, <<SliceNone, SliceNone, SliceNone>>}

\* arguments of select: per axis None (<<>>) or (lo, hi)
XLims ==
    {<<<<Real(1), Real(3)>>>>, <<<<Frac(3, 2), Frac(5, 2)>>>>, <<<<Real(7), Real(9)>>>>,
     <<<<>>, <<Frac(-1, 2), Frac(1, 2)>>>>, <<<<>>>>, <<<<>>, <<>>, <<>>>>}

NoCall == [op |-> "none"]

\* the projection engine is not running
ProjectionIdle ==
    /\ cfg = [field |-> "none"]
    /\ call = 0
    /\ pc = [r \in Ranks |-> "idle"]
    /\ pos = [r \in Ranks |-> 0]
    /\ nsum = [r \in Ranks |-> <<>>]
    /\ xsum = [r \in Ranks |-> <<>>]
    /\ musum = [r \in Ranks |-> <<>>]
    /\ ysum = [r \in Ranks |-> <<>>]
    /\ out = [r \in Ranks |-> <<>>]
    /\ hist = <<>>

StatInit ==
    /\ ProjectionIdle
    /\ stat \in Samples
    /\ ret = NoCall
    /\ prev = NoCall
    /\ operands = <<>>
    /\ est = [stage |-> "none"]
    /\ dom = [stage |-> "none"]
    /\ ue = [stage |-> "none"]
    /\ coll = [op |-> "none"]

\* stat.get_power(**f)
CallGetPower(f) ==
    /\ LET r == GetPower(stat, f)
       IN  /\ stat' = r.self
           /\ ret' = [op |-> "get_power", arg |-> f, before |-> stat, raised |-> FALSE,
                      value |-> r.toret]
    /\ prev' = IF ret.op = "get_power" /\ ret.arg = f THEN ret ELSE NoCall
    /\ UNCHANGED <<pvars, ovars>>

\* stat.rebin(factor)
CallRebin(factor) ==
    /\ \E empty_raises \in (IF RebinOfEmpty(stat) THEN BOOLEAN ELSE {FALSE}) :
          LET raises == RebinRaises(stat, factor) \/ RebinOfBroken(stat) \/ empty_raises
          IN  /\ stat' = IF raises THEN stat ELSE Rebin(stat, factor)
              /\ ret' = [op |-> "rebin", arg |-> factor, before |-> stat,
                         raised |-> raises, value |-> <<>>]
    /\ prev' = NoCall
    /\ UNCHANGED <<pvars, ovars>>

\* the outcomes of rebin when slice calls it (some step is not 1) on no bin
RebinOutcomes(slices) ==
    IF \E a \in DOMAIN slices : slices[a].step \notin {<<>>, <<1>>} THEN BOOLEAN ELSE {FALSE}

\* stat.slice(*slices)
CallSlice(slices) ==
    /\ \E empty_raises \in RebinOutcomes(slices) :
          LET r == Slice(stat, slices, empty_raises)
          IN  /\ stat' = r.self
              /\ ret' = [op |-> "slice", arg |-> slices, before |-> stat, raised |-> r.raised,
                         value |-> <<>>]
    /\ prev' = NoCall
    /\ UNCHANGED <<pvars, ovars>>

\* stat.select(*xlims); the slices of select have step 1, rebin is not called
CallSelect(xlims) ==
    /\ \E empty_raises \in {FALSE} :
          LET r == Select(stat, xlims, empty_raises)
          IN  /\ stat' = r.self
              /\ ret' = [op |-> "select", arg |-> xlims, before |-> stat, raised |-> r.raised,
                         value |-> <<>>]
    /\ prev' = NoCall
    /\ UNCHANGED <<pvars, ovars>>

\* stat[slices]
CallGetItem(slices) ==
    /\ \E empty_raises \in RebinOutcomes(slices) :
          LET r == GetItem(stat, slices, empty_raises)
          IN  /\ stat' = r.self
              /\ ret' = [op |-> "getitem", arg |-> slices, before |-> stat, raised |-> r.raised,
                         value |-> IF r.raised THEN <<>> ELSE <<r.new>>]
    /\ prev' = NoCall
    /\ UNCHANGED <<pvars, ovars>>

StatNext ==
    \/ \E f \in Flags : CallGetPower(f)
    \/ \E factor \in Factors : CallRebin(factor)

StatSpec == StatInit /\ [][StatNext]_vars

\* the methods that cut a statistic, called in any order
SliceNext ==
    \/ \E factor \in Factors : CallRebin(factor)
    \/ \E slices \in SliceArgs : CallSlice(slices)
    \/ \E xlims \in XLims : CallSelect(xlims)
    \/ \E slices \in SliceArgs : CallGetItem(slices)

\* slicing does not look at the dtype nor at the multipoles
SliceSamples == {st \in Samples : st.iscomplex /\ st.ells \in {<<>>, <<2, 1, 0>>}}

SliceInit ==
    /\ ProjectionIdle
    /\ stat \in SliceSamples
    /\ ret = NoCall
    /\ prev = NoCall
    /\ operands = <<>>
    /\ est = [stage |-> "none"]
    /\ dom = [stage |-> "none"]
    /\ ue = [stage |-> "none"]
    /\ coll = [op |-> "none"]

SliceSpec == SliceInit /\ [][SliceNext]_vars

\* number of bins of the monopole with k-edges every 0.01 from 0 to 0.5
ScenarioBins == 50

\* that monopole, k in units of 0.01, the modes at the mid-points of the bins
ScenarioSample ==
    PolesSample(<<0>>, [i \in 1..(ScenarioBins + 1) |-> i - 1], [i \in 1..ScenarioBins |-> 1], FALSE)

\* a monopole with an empty bin between populated bins
HoleSample == PolesSample(<<0>>, <<0, 1, 2, 3, 4>>, <<1, 0, 2, 1>>, FALSE)

SelectSamples == SliceSamples \cup {ScenarioSample, HoleSample}

\* limits of select, with (0.1, 0.3) in units of 0.01
SelectLims ==
    XLims \cup {<<<<Real(10), Real(30)>>>>, <<<<Real(0), Real(3)>>>>, <<<<Real(25), Real(60)>>>>}

SelectInit ==
    /\ ProjectionIdle
    /\ stat \in SelectSamples
    /\ ret = NoCall
    /\ prev = NoCall
    /\ operands = <<>>
    /\ est = [stage |-> "none"]
    /\ dom = [stage |-> "none"]
    /\ ue = [stage |-> "none"]
    /\ coll = [op |-> "none"]

\* select called any number of times
SelectNext == \E xlims \in SelectLims : CallSelect(xlims)

SelectSpec == SelectInit /\ [][SelectNext]_vars

\* largest number of statistics summed
MaxOperands == 3

\* multipoles of either dtype, with and without empty bins, of the same and of
\* different multipoles, norms and shot noise
PolesPool ==
    {PolesSample(<<2, 1, 0>>, <<0, 1, 2, 3, 4>>, <<1, 1, 1, 1>>, FALSE),
     [PolesSample(<<2, 1, 0>>, <<0, 1, 2, 3, 4>>, <<0, 2, 1, 3>>, TRUE) EXCEPT
         !.wnorm = Real(5), !.shotnoise_nonorm = Frac(1, 2)],
     PolesSample(<<1, 3>>, <<0, 1, 2, 3, 4>>, <<1, 1, 1, 1>>, TRUE)}

\* wedges of the same shape with different edges, norms and dtypes
WedgesPool ==
    {WedgesSample(<<0, 1, 2>>, <<-2, -1, 0, 1, 2>>, "mixed", TRUE),
     [WedgesSample(<<1, 2, 3>>, <<-2, -1, 0, 1, 2>>, "shifted", FALSE) EXCEPT !.wnorm = Real(7)]}

\* sequences of 1..MaxOperands statistics of one class
OperandsOf(pool) == UNION {[1..n -> pool] : n \in 1..MaxOperands}

\* the orders in which n operands can be passed
Orders(n) == {o \in [1..n -> 1..n] : \A i, j \in 1..n : o[i] = o[j] => i = j}

SumInit ==
    /\ ProjectionIdle
    /\ stat = [kind |-> "none"]
    /\ ret = NoCall
    /\ prev = NoCall
    /\ operands \in OperandsOf(PolesPool) \cup OperandsOf(WedgesPool)
    /\ est = [stage |-> "none"]
    /\ dom = [stage |-> "none"]
    /\ ue = [stage |-> "none"]
    /\ coll = [op |-> "none"]

\* what a call leaves in operands: the operands taken in the order o
AfterCall(o, others) ==
    [k \in DOMAIN operands |->
        IF \E m \in DOMAIN o : o[m] = k THEN others[CHOOSE m \in DOMAIN o : o[m] = k]
        ELSE operands[k]]

\* cls.sum(*operands), the operands taken in the order o
CallSum(o) ==
    /\ LET r == Sum([m \in DOMAIN o |-> operands[o[m]]])
       IN  /\ operands' = AfterCall(o, r.others)
           /\ ret' = [op |-> "sum", arg |-> o, before |-> operands, raised |-> r.raised,
                      value |-> r.new]
    /\ UNCHANGED <<pvars, stat, prev, est, fvars>>

\* operands[i] + operands[j]
CallAdd(i, j) ==
    /\ i # j
    /\ LET r == Add(operands[i], operands[j])
       IN  /\ operands' = AfterCall(<<i, j>>, r.others)
           /\ ret' = [op |-> "add", arg |-> <<i, j>>, before |-> operands, raised |-> r.raised,
                      value |-> r.new]
    /\ UNCHANGED <<pvars, stat, prev, est, fvars>>

\* 0 + operands[i]
CallRAdd(i) ==
    /\ LET r == RAddZero(operands[i])
       IN  /\ operands' = AfterCall(<<i>>, r.others)
           /\ ret' = [op |-> "radd", arg |-> <<i>>, before |-> operands, raised |-> r.raised,
                      value |-> r.new]
    /\ UNCHANGED <<pvars, stat, prev, est, fvars>>

\* the built-in sum([operands...]), the operands taken in the order o
CallBuiltinSum(o) ==
    /\ LET r == BuiltinSum([m \in DOMAIN o |-> operands[o[m]]], Len(o))
       IN  /\ operands' = AfterCall(o, r.others)
           /\ ret' = [op |-> "builtin_sum", arg |-> o, before |-> operands,
                      raised |-> r.raised, value |-> r.new]
    /\ UNCHANGED <<pvars, stat, prev, est, fvars>>

SumNext ==
    \/ \E o \in Orders(Len(operands)) : CallSum(o)
    \/ \E i, j \in DOMAIN operands : CallAdd(i, j)
    \/ \E i \in DOMAIN operands : CallRAdd(i)
    \/ \E o \in Orders(Len(operands)) : CallBuiltinSum(o)

SumSpec == SumInit /\ [][SumNext]_vars

(***************************************************************************)
(* MeshFFTPower.  An optional argument is <<>> (None) or <<value>>.  The   *)
(* meshes are RealField or ComplexField instances; compensations are None, *)
(* wnorm and shotnoise are given.                                          *)
(***************************************************************************)
AllowedLos == {"firstpoint", "endpoint", "x", "y", "z"}

AxisVector(name) ==
    IF name = "x" THEN <<1, 0, 0>> ELSE IF name = "y" THEN <<0, 1, 0>> ELSE <<0, 0, 1>>

\* _get_los(los) for los None or a string
GetLos(los) ==
    IF los = <<>> THEN [raised |-> FALSE, los_type |-> "firstpoint", los |-> <<>>]
    ELSE IF los[1] \notin AllowedLos THEN [raised |-> TRUE, los_type |-> "global", los |-> <<>>]
    ELSE IF los[1] \in {"firstpoint", "endpoint"}
    THEN [raised |-> FALSE, los_type |-> los[1], los |-> <<>>]
    ELSE [raised |-> FALSE, los_type |-> "global", los |-> <<AxisVector(los[1])>>]

\* _set_ells raises
SetEllsRaises(los_type, los, ells) ==
    IF ells = <<>> THEN los_type # "global"
    ELSE (los = <<>> /\ ells[1] = <<>>) \/ (\E i \in DOMAIN ells[1] : ells[1][i] < 0)

\* self.mesh2 of _set_mesh: mesh1 for an auto-correlation
SecondMesh(mesh1, mesh2) == IF mesh2 = <<>> THEN mesh1 ELSE mesh2[1]

\* the error _set_mesh raises, "none" if it returns
SetMeshError(mesh1, mesh2) ==
    IF mesh1.boxsize # SecondMesh(mesh1, mesh2).boxsize THEN "ValueError"
    ELSE IF mesh1.nmesh # SecondMesh(mesh1, mesh2).nmesh THEN "ValueError"
    ELSE IF mesh1.comm # SecondMesh(mesh1, mesh2).comm THEN "ValueError"
    ELSE IF \E a \in 1..3 : mesh1.nmesh[a] % 2 = 1 THEN "NotImplementedError"
    ELSE "none"

\* the mu-edges _set_edges keeps: a single wedge when none is given
MuEdgesOf(muedges) == IF muedges = <<>> THEN << <<-1, 1>>, <<1, 1>> >> ELSE muedges[1]

\* the error _set_edges raises on a rank, for edges = (kedges, muedges) with
\* kedges an array: rank 0 formats kedges[0] in its log message
SetEdgesError(los_type, kedges, muedges, rank) ==
    IF rank = 0 /\ Len(kedges) = 0 THEN "IndexError"
    ELSE IF muedges # <<>> /\ los_type # "global" /\ Len(muedges[1]) > 2 THEN "ValueError"
    ELSE IF Len(kedges) < 2 \/ Len(MuEdgesOf(muedges)) < 2 THEN "ValueError"
    ELSE "none"

\* the error the setup part of __init__ raises on a rank, "none" if run() is entered
SetupError(args, rank) ==
    IF GetLos(args.los).raised THEN "ValueError"
    ELSE IF SetEllsRaises(GetLos(args.los).los_type, GetLos(args.los).los, args.ells)
    THEN "ValueError"
    ELSE IF SetMeshError(args.mesh1, args.mesh2) # "none"
    THEN SetMeshError(args.mesh1, args.mesh2)
    ELSE SetEdgesError(GetLos(args.los).los_type, args.kedges, args.muedges, rank)

\* number of r2c of _to_complex(mesh)
ToComplex(mesh) == IF mesh.type = "real" THEN 1 ELSE 0

\* the members of a set of integers, in increasing order
Sorted(S) == [i \in 1..Cardinality(S) |-> CHOOSE v \in S : RankIn(S, v) = i]

SeqRange(seq) == {seq[i] : i \in DOMAIN seq}

\* empty buffers of a projection with the inputs c
ZeroBuffersOf(c) ==
    LET rows == 0..(Len(c.xedges) + 1)
        cols == 0..(Len(c.muedges) + 1)
    IN  [n |-> [i \in rows |-> [j \in cols |-> 0]],
         x |-> [i \in rows |-> [j \in cols |-> ZeroVec]],
         mu |-> [i \in rows |-> [j \in cols |-> ZeroVec]],
         y |-> [l \in DOMAIN UniqueElls(c.ells) |-> [i \in rows |-> [j \in cols |-> ZeroCVec]]]]

\* every rank enters project_to_basis with the inputs c
StartProjection(c) ==
    /\ cfg' = c
    /\ call' = 1
    /\ pc' = [r \in Ranks |-> "loop"]
    /\ pos' = [r \in Ranks |-> 0]
    /\ nsum' = [r \in Ranks |-> ZeroBuffersOf(c).n]
    /\ xsum' = [r \in Ranks |-> ZeroBuffersOf(c).x]
    /\ musum' = [r \in Ranks |-> ZeroBuffersOf(c).mu]
    /\ ysum' = [r \in Ranks |-> ZeroBuffersOf(c).y]
    /\ out' = [r \in Ranks |-> <<>>]
    /\ hist' = <<>>

\* no projection is running (any more)
StopProjection ==
    /\ cfg' = [field |-> "none"]
    /\ call' = 0
    /\ pc' = [r \in Ranks |-> "idle"]
    /\ pos' = [r \in Ranks |-> 0]
    /\ nsum' = [r \in Ranks |-> <<>>]
    /\ xsum' = [r \in Ranks |-> <<>>]
    /\ musum' = [r \in Ranks |-> <<>>]
    /\ ysum' = [r \in Ranks |-> <<>>]
    /\ out' = [r \in Ranks |-> <<>>]
    /\ hist' = <<>>

MeshFactor(mesh) == [ylm |-> FALSE, mesh |-> mesh.field, ell |-> 0]

YlmFactor(mesh, ell) == [ylm |-> TRUE, mesh |-> mesh.field, ell |-> ell]

\* conjugate of an average (a quotient of a sum of complex coefficients)
ConjAvg(q) == [q EXCEPT !.num = [s \in DOMAIN q.num |-> Conj(q.num[s])]]

\* conjugate of a sum of complex coefficients
ConjSum(v) == [s \in DOMAIN v |-> Conj(v[s])]

\* nmesh.prod()**2 times the conjugate of a projected average; fourpi marks
\* the factor 4 pi of the local multipoles of ell > 0
Corrected(q) ==
    [factor |-> (Nmesh * Nmesh * Nmesh) * (Nmesh * Nmesh * Nmesh), fourpi |-> FALSE,
     value |-> ConjAvg(q)]

\* the same, of the sum of the zero mode
CorrectedZero(v) ==
    [factor |-> (Nmesh * Nmesh * Nmesh) * (Nmesh * Nmesh * Nmesh), fourpi |-> FALSE,
     value |-> ConjSum(v)]

\* the inputs of the projection of _run_global_los
GlobalCfg(e) ==
    [xedges |-> e.args.kedges, muedges |-> MuEdgesOf(e.args.muedges), los |-> e.los[1],
     ells |-> IF e.args.ells = <<>> THEN <<>> ELSE e.args.ells[1], poles |-> e.args.ells # <<>>,
     field |-> "product", left |-> MeshFactor(e.args.mesh1),
     right |-> MeshFactor(SecondMesh(e.args.mesh1, e.args.mesh2)),
     antisymmetric |-> FALSE, exclude_zero |-> FALSE]

\* self.wedges of _run_global_los, from what project_to_basis returned
GlobalWedges(e, result) ==
    [edges |-> <<e.args.kedges, MuEdgesOf(e.args.muedges)>>,
     modes |-> <<result.xmean2d, result.mumean2d>>,
     power_nonorm |-> [i \in DOMAIN result.y2d |-> [j \in DOMAIN result.y2d[i] |->
                          Corrected(result.y2d[i][j])]],
     power_zero_nonorm |-> CorrectedZero(result.zero2d),
     nmodes |-> result.n2d]

\* self.poles of _run_global_los
GlobalPoles(e, result) ==
    [edges |-> e.args.kedges, ells |-> e.args.ells[1],
     modes |-> result.xmean1d,
     power_nonorm |-> [l \in DOMAIN result.poles |-> [i \in DOMAIN result.poles[l] |->
                          Corrected(result.poles[l][i])]],
     power_zero_nonorm |-> [l \in DOMAIN result.poles_zero |->
                               CorrectedZero(result.poles_zero[l])],
     nmodes |-> result.n1d]

\* the meshes of _run_local_los, swapped for the end point line-of-sight
LocalMesh1(e) ==
    IF e.los_type = "endpoint" THEN SecondMesh(e.args.mesh1, e.args.mesh2) ELSE e.args.mesh1

LocalMesh2(e) ==
    IF e.los_type = "endpoint" THEN e.args.mesh1 ELSE SecondMesh(e.args.mesh1, e.args.mesh2)

\* the inputs of the projection of _run_local_los for the multipole ell: the
\* default line-of-sight, no multipoles
LocalCfg(e, ell) ==
    [xedges |-> e.args.kedges, muedges |-> MuEdgesOf(e.args.muedges), los |-> <<0, 0, 1>>,
     ells |-> <<>>, poles |-> FALSE, field |-> "product",
     left |-> IF ell = 0 THEN MeshFactor(LocalMesh1(e)) ELSE YlmFactor(LocalMesh1(e), ell),
     right |-> MeshFactor(LocalMesh2(e)),
     antisymmetric |-> (ell % 2 = 1), exclude_zero |-> FALSE]

\* number of r2c of _run_local_los before its first projection
LocalFirstTransforms(e) ==
    ToComplex(LocalMesh2(e))
    + (IF ~e.autocorr /\ 0 \in SeqRange(e.args.ells[1]) THEN ToComplex(LocalMesh1(e)) ELSE 0)

\* number of r2c of the loop over m for the multipole ell
YlmTransforms(ell) == IF ell = 0 THEN 0 ELSE 2 * ell + 1

\* one entry of result: the projection of a multipole, squeezed over the one
\* mu-bin, times 4 pi for ell > 0
LocalResult(ell, result) ==
    [ell |-> ell, fourpi |-> ell # 0,
     power |-> [i \in DOMAIN result.y2d |-> result.y2d[i][1]],
     power_zero |-> result.zero2d]

\* the entry of result for the multipole ell
ResultOf(results, ell) == results[CHOOSE r \in DOMAIN results : results[r].ell = ell]

\* variant of LocalPower without the conjugation of the end point line-of-sight
LocalPowerFirstPoint(e, fourpi, q) ==
    [factor |-> (Nmesh * Nmesh * Nmesh) * (Nmesh * Nmesh * Nmesh), fourpi |-> fourpi,
     value |-> ConjAvg(q)]

\* nmesh.prod()**2 times the conjugate of an entry of result, conjugated once
\* more for the end point line-of-sight
LocalPower(e, fourpi, q) ==
    [factor |-> (Nmesh * Nmesh * Nmesh) * (Nmesh * Nmesh * Nmesh), fourpi |-> fourpi,
     value |-> IF e.los_type = "endpoint" THEN ConjAvg(ConjAvg(q)) ELSE ConjAvg(q)]

LocalPowerZero(e, fourpi, v) ==
    [factor |-> (Nmesh * Nmesh * Nmesh) * (Nmesh * Nmesh * Nmesh), fourpi |-> fourpi,
     value |-> IF e.los_type = "endpoint" THEN ConjSum(ConjSum(v)) ELSE ConjSum(v)]

\* variant of LocalPoles that reads result in the order of self.ells (the
\* last entry for the rows beyond the entries of result)
LocalPolesUnsorted(e, results, last) ==
    LET EntryAt(res, l) == res[IF l <= Len(res) THEN l ELSE Len(res)]
    IN
    [edges |-> e.args.kedges, ells |-> e.args.ells[1],
     modes |-> [i \in DOMAIN last.xmean2d |-> last.xmean2d[i][1]],
     power_nonorm |-> [l \in DOMAIN e.args.ells[1] |->
                          [i \in DOMAIN EntryAt(results, l).power |->
                              LocalPower(e, EntryAt(results, l).fourpi, EntryAt(results, l).power[i])]],
     power_zero_nonorm |-> [l \in DOMAIN e.args.ells[1] |->
                              LocalPowerZero(e, EntryAt(results, l).fourpi, EntryAt(results, l).power_zero)],
     nmodes |-> [i \in DOMAIN last.n2d |-> last.n2d[i][1]]]

\* self.poles of _run_local_los, from result and the last projection
LocalPoles(e, results, last) ==
    [edges |-> e.args.kedges, ells |-> e.args.ells[1],
     modes |-> [i \in DOMAIN last.xmean2d |-> last.xmean2d[i][1]],
     power_nonorm |-> [l \in DOMAIN e.args.ells[1] |->
                          [i \in DOMAIN ResultOf(results, e.args.ells[1][l]).power |->
                              LocalPower(e, ResultOf(results, e.args.ells[1][l]).fourpi,
                                         ResultOf(results, e.args.ells[1][l]).power[i])]],
     power_zero_nonorm |-> [l \in DOMAIN e.args.ells[1] |->
                              LocalPowerZero(e, ResultOf(results, e.args.ells[1][l]).fourpi,
                                             ResultOf(results, e.args.ells[1][l]).power_zero)],
     nmodes |-> [i \in DOMAIN last.n2d |-> last.n2d[i][1]]]

\* n a - m z, coefficient by coefficient
CVecCombine(n, a, m, z) ==
    LET val(s) == <<n * CCoef(a, s)[1] - m * CCoef(z, s)[1],
                    n * CCoef(a, s)[2] - m * CCoef(z, s)[2]>>
    IN  [s \in {t \in DOMAIN a \cup DOMAIN z : val(t) # <<0, 0>>} |-> val(s)]

\* toret[dig_zero] -= power_zero_nonorm / nmodes[dig_zero] of get_power, for an
\* entry a (a quotient) and the sum z of the zero mode, both in units of
\* nmesh.prod()**2 (times 4 pi): NaN stays NaN, x - z / 0 is NaN
SubZeroMode(a, z, n) ==
    IF a.value.kind = "nan" THEN a
    ELSE IF n = 0 THEN [a EXCEPT !.value = [kind |-> "nan", num |-> ZeroCVec, den |-> 0]]
    ELSE [a EXCEPT !.value = [kind |-> a.value.kind,
                              num |-> CVecCombine(n, a.value.num, a.value.den, z.value),
                              den |-> a.value.den * n]]

\* wedges.get_power(add_direct=False, remove_shotnoise=False,
\* null_zero_mode=True, divide_wnorm=False) of the wedges of MeshFFTPower
NulledWedges(w) ==
    LET dz == <<DigitizeZero(w.edges[1]), DigitizeZero(w.edges[2])>>
        inside == /\ dz[1] \in 1..(Len(w.edges[1]) - 1)
                  /\ dz[2] \in 1..(Len(w.edges[2]) - 1)
    IN  [i \in DOMAIN w.power_nonorm |-> [j \in DOMAIN w.power_nonorm[i] |->
            IF inside /\ <<i, j>> = dz
            THEN SubZeroMode(w.power_nonorm[i][j], w.power_zero_nonorm,
                             w.nmodes[dz[1]][dz[2]])
            ELSE w.power_nonorm[i][j]]]

\* the same of the poles of MeshFFTPower: PowerSpectrumMultipoles.get_power
\* passes null_zero_mode to the base class, the edges are the k-edges
NulledPoles(p) ==
    LET dz == DigitizeZero(p.edges)
        inside == dz \in 1..(Len(p.edges) - 1)
    IN  [l \in DOMAIN p.power_nonorm |-> [i \in DOMAIN p.power_nonorm[l] |->
            IF inside /\ i = dz
            THEN SubZeroMode(p.power_nonorm[l][i], p.power_zero_nonorm[l], p.nmodes[dz])
            ELSE p.power_nonorm[l][i]]]

\* the input meshes: fields on a cubic mesh of Nmesh cells a side
GoodMesh(f) ==
    [field |-> f, type |-> "real", boxsize |-> <<10, 10, 10>>,
     nmesh |-> <<Nmesh, Nmesh, Nmesh>>, comm |-> "world"]

Mesh1Set == {GoodMesh("f1"), [GoodMesh("f1") EXCEPT !.nmesh = <<Nmesh, Nmesh + 1, Nmesh>>]}

Mesh2Set ==
    { <<>>, <<GoodMesh("f2")>>,
      <<[GoodMesh("f2") EXCEPT !.boxsize = <<10, 10, 20>>]>>,
      <<[GoodMesh("f2") EXCEPT !.nmesh = <<Nmesh, Nmesh, 2 * Nmesh>>]>>,
      <<[GoodMesh("f2") EXCEPT !.comm = "split"]>> }

EstLosSet == { <<>>, <<"endpoint">>, <<"x">>, <<"z">>, <<"w">> }

EstEllsSet ==
    { <<>>, << <<>> >>, << <<0>> >>, << <<2, 0, 1>> >>, << <<2, 2, 1>> >>, << <<0, -1>> >> }

\* k-edges in units of the fundamental, the first bin holding the zero mode and
\* the modes of norm 1; no edge; one edge
KEdgesSet == { << <<0, 1>>, <<5, 4>>, <<7, 4>>, <<2, 1>> >>, <<>>, << <<0, 1>> >> }

EstMuEdgesSet ==
    { <<>>, << << <<-1, 1>>, <<1, 1>> >> >>, << << <<0, 1>>, <<1, 2>> >> >>,
      << << <<-1, 1>>, <<-1, 2>>, <<0, 1>>, <<1, 2>>, <<1, 1>> >> >>,
      << << <<-1, 1>>, <<-1, 2>>, <<0, 1>> >> >>, << << <<0, 1>> >> >> }

EstArgs ==
    [los : EstLosSet, ells : EstEllsSet, mesh1 : Mesh1Set, mesh2 : Mesh2Set,
     kedges : KEdgesSet, muedges : EstMuEdgesSet]

\* the estimator when __init__ raises in its setup
Raised(args, first) ==
    [stage |-> "raised", args |-> args, error |-> [r \in Ranks |-> SetupError(args, r)],
     los_type |-> "none", los |-> <<>>, autocorr |-> FALSE, r2c |-> 0, projections |-> 0,
     job |-> 0, jobs |-> <<>>, result |-> <<>>, poles |-> <<>>, wedges |-> <<>>,
     first |-> first]

\* the estimator when __init__ enters run()
Entered(args, first) ==
    [stage |-> IF GetLos(args.los).los_type = "global" THEN "global" ELSE "local",
     args |-> args, error |-> [r \in Ranks |-> "none"],
     los_type |-> GetLos(args.los).los_type, los |-> GetLos(args.los).los,
     autocorr |-> args.mesh2 = <<>>, r2c |-> 0, projections |-> 0,
     job |-> 0, jobs |-> <<>>, result |-> <<>>, poles |-> <<>>, wedges |-> <<>>,
     first |-> first]

\* _run_global_los up to its call of project_to_basis
BeginGlobal(e) ==
    /\ est' = [e EXCEPT !.r2c = ToComplex(e.args.mesh1)
                                + (IF e.autocorr THEN 0 ELSE ToComplex(e.args.mesh2[1]))]
    /\ StartProjection(GlobalCfg(e))

\* variant of BeginLocal that goes through self.ells as they were given
BeginLocalAsGiven(e) ==
    /\ est' = [e EXCEPT !.r2c = ToComplex(IF e.los_type = "endpoint" THEN e.args.mesh1
                                           ELSE IF e.args.mesh2 = <<>> THEN e.args.mesh1
                                           ELSE e.args.mesh2[1])
                                + (IF ~e.autocorr /\ (\E i \in DOMAIN e.args.ells[1] :
                                                         e.args.ells[1][i] = 0)
                                   THEN ToComplex(IF e.los_type = "endpoint"
                                                  THEN e.args.mesh2[1] ELSE e.args.mesh1)
                                   ELSE 0)
                                + (IF e.args.ells[1][1] = 0 THEN 0
                                   ELSE 2 * e.args.ells[1][1] + 1),
                        !.job = e.args.ells[1][1], !.jobs = Tail(e.args.ells[1])]
    /\ StartProjection(
          [xedges |-> e.args.kedges,
           muedges |-> IF e.args.muedges = <<>> THEN << <<-1, 1>>, <<1, 1>> >>
                       ELSE e.args.muedges[1],
           los |-> <<0, 0, 1>>, ells |-> <<>>, poles |-> FALSE, field |-> "product",
           left |-> [ylm |-> e.args.ells[1][1] # 0,
                     mesh |-> IF e.los_type = "endpoint" /\ e.args.mesh2 # <<>>
                              THEN e.args.mesh2[1].field ELSE e.args.mesh1.field,
                     ell |-> e.args.ells[1][1]],
           right |-> [ylm |-> FALSE,
                      mesh |-> IF e.los_type = "endpoint" \/ e.args.mesh2 = <<>>
                               THEN e.args.mesh1.field ELSE e.args.mesh2[1].field,
                      ell |-> 0],
           antisymmetric |-> (e.args.ells[1][1] % 2 = 1), exclude_zero |-> FALSE])

\* _run_local_los up to its first call of project_to_basis
BeginLocal(e) ==
    LET ells == Sorted(SeqRange(e.args.ells[1]))
    IN  /\ est' = [e EXCEPT !.r2c = LocalFirstTransforms(e) + YlmTransforms(ells[1]),
                            !.job = ells[1], !.jobs = Tail(ells)]
        /\ StartProjection(LocalCfg(e, ells[1]))

\* MeshFFTPower(mesh1, mesh2, edges, ells, los): the setup and, unless it
\* raises, run() up to the first projection
Build(args, first) ==
    IF \E r \in Ranks : SetupError(args, r) # "none"
    THEN /\ est' = Raised(args, first)
         /\ UNCHANGED pvars
    ELSE IF GetLos(args.los).los_type = "global"
    THEN BeginGlobal(Entered(args, first))
    ELSE BeginLocal(Entered(args, first))

Construct ==
    /\ est.stage = "none"
    /\ \E args \in EstArgs : Build(args, <<>>)
    /\ UNCHANGED <<stat, ret, prev, operands, fvars>>

ProjectionDone == \A r \in Ranks : pc[r] = "done"

\* the rest of _run_global_los
EndGlobal ==
    /\ est.stage = "global"
    /\ ProjectionDone
    /\ est' = [est EXCEPT !.stage = "done", !.projections = @ + 1,
                          !.wedges = <<GlobalWedges(est, out[0][1])>>,
                          !.poles = IF out[0][1].return_poles
                                    THEN <<GlobalPoles(est, out[0][1])>> ELSE <<>>]
    /\ StopProjection
    /\ UNCHANGED <<stat, ret, prev, operands, fvars>>

\* _run_local_los after a projection: the next multipole, or the end
LocalStep ==
    /\ est.stage = "local"
    /\ ProjectionDone
    /\ LET results == Append(est.result, LocalResult(est.job, out[0][1]))
       IN  IF est.jobs # <<>>
           THEN /\ est' = [est EXCEPT !.projections = @ + 1, !.result = results,
                                      !.r2c = @ + YlmTransforms(Head(est.jobs)),
                                      !.job = Head(est.jobs), !.jobs = Tail(est.jobs)]
                /\ StartProjection(LocalCfg(est, Head(est.jobs)))
           ELSE /\ est' = [est EXCEPT !.stage = "done", !.projections = @ + 1,
                                      !.result = results,
                                      !.poles = <<LocalPoles(est, results, out[0][1])>>]
                /\ StopProjection
    /\ UNCHANGED <<stat, ret, prev, operands, fvars>>

\* the multipoles a second estimator is asked for
AgainElls == { << <<0>> >>, << <<2, 0, 1>> >> }

\* a second estimator on the same fields and k-edges, with a local
\* line-of-sight; the first one is kept for comparison
Again ==
    /\ est.stage = "done"
    /\ est.first = <<>>
    /\ est.los_type = "global"
    /\ est.poles # <<>>
    /\ MuEdgesOf(est.args.muedges) = << <<-1, 1>>, <<1, 1>> >>
    /\ \E los \in { <<>>, <<"endpoint">> }, ells \in AgainElls :
          Build([est.args EXCEPT !.los = los, !.ells = ells],
                <<[args |-> est.args, poles |-> est.poles[1]]>>)
    /\ UNCHANGED <<stat, ret, prev, operands, fvars>>

\* the end point estimator on the swapped fields (f2, f1) of a first point
\* estimator on (f1, f2) that has run, with the same edges and multipoles; the
\* first one is kept for comparison
Swapped ==
    /\ est.stage = "done"
    /\ est.first = <<>>
    /\ est.los_type = "firstpoint"
    /\ Build([est.args EXCEPT !.los = <<"endpoint">>,
                              !.mesh1 = SecondMesh(est.args.mesh1, est.args.mesh2),
                              !.mesh2 = IF est.args.mesh2 = <<>> THEN <<>>
                                        ELSE <<est.args.mesh1>>],
             <<[args |-> est.args, poles |-> est.poles[1]]>>)
    /\ UNCHANGED <<stat, ret, prev, operands, fvars>>

EstInit ==
    /\ cfg = [field |-> "none"]
    /\ call = 0
    /\ pc = [r \in Ranks |-> "idle"]
    /\ pos = [r \in Ranks |-> 0]
    /\ nsum = [r \in Ranks |-> <<>>]
    /\ xsum = [r \in Ranks |-> <<>>]
    /\ musum = [r \in Ranks |-> <<>>]
    /\ ysum = [r \in Ranks |-> <<>>]
    /\ out = [r \in Ranks |-> <<>>]
    /\ hist = <<>>
    /\ stat = [kind |-> "none"]
    /\ ret = [op |-> "none"]
    /\ prev = [op |-> "none"]
    /\ operands = <<>>
    /\ est = [stage |-> "none"]
    /\ dom = [stage |-> "none"]
    /\ ue = [stage |-> "none"]
    /\ coll = [op |-> "none"]

EstNext ==
    \/ Construct
    \/ \E r \in Ranks : Plane(r)
    \/ ReduceX
    \/ ReduceMu
    \/ ReduceY
    \/ ReduceN
    \/ \E r \in Ranks : Return(r)
    \/ EndGlobal
    \/ LocalStep
    \/ Again
    \/ Swapped

EstSpec == EstInit /\ [][EstNext]_vars

(***************************************************************************)
(* find_unique_edges.  Coordinates are integer multiples of x0, so a       *)
(* squared norm is an integer n2 in units of x0^2; xmin and xmax are       *)
(* fractions <<p, q>> of x0, <<1, 0>> standing for np.inf.  An edge is     *)
(* xmin or xmax, a midpoint (sqrt(a) + sqrt(b)) / 2, or the last value     *)
(* plus half the last width, (3 sqrt(b) - sqrt(a)) / 2.                    *)
(***************************************************************************)
Infinity == <<1, 0>>

RatEdge(x) == [kind |-> "rat", p |-> x[1], q |-> x[2], a |-> 0, b |-> 0]

MidEdge(a, b) == [kind |-> "mid", p |-> 0, q |-> 1, a |-> a, b |-> b]

ExtEdge(a, b) == [kind |-> "ext", p |-> 0, q |-> 1, a |-> a, b |-> b]

\* int64(x2 / (0.5 * x0)**2 + 0.5) for x2 = n2 * x0^2
UniqueKey(n2) == (8 * n2 + 1) \div 2

\* np.unique(keys, return_index=True)[1]: for each distinct key, in
\* increasing order, the index of its first occurrence
UniqueIndex(x2) ==
    LET keys == Sorted({UniqueKey(x2[i]) : i \in DOMAIN x2})
    IN  [t \in DOMAIN keys |->
            CHOOSE i \in DOMAIN x2 :
                /\ UniqueKey(x2[i]) = keys[t]
                /\ \A j \in 1..(i - 1) : UniqueKey(x2[j]) # keys[t]]

\* fx2[unique_index(fx2)]
TakeUnique(x2) == [t \in DOMAIN UniqueIndex(x2) |-> x2[UniqueIndex(x2)[t]]]

\* xmin**2 <= fx2 <= xmax**2
InBounds(n2, xmin, xmax) ==
    /\ xmin[1] * xmin[1] <= n2 * xmin[2] * xmin[2]
    /\ n2 * xmax[2] * xmax[2] <= xmax[1] * xmax[1]

\* unique_local, from the squared norms of the local coordinates
UniqueLocal(x2, xmin, xmax) ==
    LET keep(n2) == InBounds(n2, xmin, xmax)
    IN  SelectSeq(TakeUnique(x2), keep)

\* fx[-1] + width[-1] / 2. <= xmax, for the last two values sqrt(a), sqrt(b)
ExtLeqBound(a, b, xmax) ==
    LET l == (9 * b + a) * xmax[2] * xmax[2] - 4 * xmax[1] * xmax[1]
    IN  l <= 0 \/ l * l <= 36 * xmax[2] * xmax[2] * xmax[2] * xmax[2] * a * b

\* the edges made around the gathered and deduplicated values, IndexError
\* with less than two of them
MakeEdges(fx2, xmin, xmax) ==
    LET fx == TakeUnique(fx2)
        n == Len(fx)
    IN  IF n < 2 THEN [raised |-> TRUE, edges |-> <<>>]
        ELSE [raised |-> FALSE,
              edges |-> <<RatEdge(xmin)>>
                        \o [i \in 1..(n - 1) |-> MidEdge(fx[i], fx[i + 1])]
                        \o <<IF ExtLeqBound(fx[n - 1], fx[n], xmax)
                             THEN ExtEdge(fx[n - 1], fx[n]) ELSE RatEdge(xmax)>>]

\* the squared norms of the coordinates a rank holds: the planes of a mesh
\* of Nmesh cells a side, split and stored as in Calls[c]
PlanesOf(c, r) == Sorted({i \in 0..(Nmesh - 1) : Calls[c].owner[i] = r})

LastLenOf(c) == IF Calls[c].compressed THEN HalfN + 1 ELSE Nmesh

LocalNorms(c, r) ==
    [t \in 1..(Len(PlanesOf(c, r)) * Nmesh * LastLenOf(c)) |->
        Norm2(<<SlabFreq(PlanesOf(c, r)[((t - 1) \div (Nmesh * LastLenOf(c))) + 1]),
                SlabFreq(((t - 1) % (Nmesh * LastLenOf(c))) \div LastLenOf(c)),
                SlabFreq((t - 1) % LastLenOf(c))>>)]

XMinSet == { <<0, 1>>, <<1, 2>>, <<1, 1>>, <<3, 2>> }

XMaxSet == { <<1, 1>>, <<2, 1>>, <<5, 2>>, Infinity }

UeInit ==
    /\ cfg = [field |-> "none"]
    /\ call = 0
    /\ pc = [r \in Ranks |-> "idle"]
    /\ pos = [r \in Ranks |-> 0]
    /\ nsum = [r \in Ranks |-> <<>>]
    /\ xsum = [r \in Ranks |-> <<>>]
    /\ musum = [r \in Ranks |-> <<>>]
    /\ ysum = [r \in Ranks |-> <<>>]
    /\ out = [r \in Ranks |-> <<>>]
    /\ hist = <<>>
    /\ stat = [kind |-> "none"]
    /\ ret = [op |-> "none"]
    /\ prev = [op |-> "none"]
    /\ operands = <<>>
    /\ est = [stage |-> "none"]
    /\ dom = [stage |-> "none"]
    /\ \E c \in DOMAIN Calls, xmin \in XMinSet, xmax \in XMaxSet :
          ue = [stage |-> "called", split |-> c, xmin |-> xmin, xmax |-> xmax,
                at |-> [r \in Ranks |-> "local"],
                fx2 |-> [r \in Ranks |-> <<>>],
                result |-> [r \in Ranks |-> <<>>]]
    /\ coll = [op |-> "none"]

\* fx2 = unique_local(x) on rank r
LocalUnique(r) ==
    /\ ue.stage = "called"
    /\ ue.at[r] = "local"
    /\ ue' = [ue EXCEPT !.at[r] = "allgather",
                        !.fx2[r] = UniqueLocal(LocalNorms(ue.split, r), ue.xmin, ue.xmax)]
    /\ UNCHANGED <<pvars, stat, ret, prev, operands, est, coll, dom>>

\* fx2 = np.concatenate(mpicomm.allgather(fx2)), once every rank has called it
AllgatherUnique ==
    /\ ue.stage = "called"
    /\ \A r \in Ranks : ue.at[r] = "allgather"
    /\ ue' = [ue EXCEPT !.at = [r \in Ranks |-> "edges"],
                        !.fx2 = [r \in Ranks |-> ue.fx2[0] \o ue.fx2[1]]]
    /\ UNCHANGED <<pvars, stat, ret, prev, operands, est, coll, dom>>

\* the rest of find_unique_edges on rank r
ReturnEdges(r) ==
    /\ ue.stage = "called"
    /\ ue.at[r] = "edges"
    /\ ue' = [ue EXCEPT !.at[r] = "done",
                        !.result[r] = <<MakeEdges(ue.fx2[r], ue.xmin, ue.xmax)>>]
    /\ UNCHANGED <<pvars, stat, ret, prev, operands, est, coll, dom>>

UeNext ==
    \/ \E r \in Ranks : LocalUnique(r)
    \/ AllgatherUnique
    \/ \E r \in Ranks : ReturnEdges(r)

UeSpec == UeInit /\ [][UeNext]_vars

(***************************************************************************)
(* mpi.gather_array and mpi.scatter_array, rank by rank.  A rank is at      *)
(* the start, waits in a collective call ("w_..."), has left it            *)
(* ("a_..."), has raised or has returned.  A collective call completes     *)
(* once every rank waits in it.                                            *)
(***************************************************************************)
PlainType(base) == [struct |-> FALSE, base |-> base, fields |-> <<>>]

StructType(fields) == [struct |-> TRUE, base |-> "V", fields |-> fields]

Field(name, base) == [name |-> name, base |-> base]

Names(dtype) == {dtype.fields[i].name : i \in DOMAIN dtype.fields}

FieldBase(dtype, name) ==
    dtype.fields[CHOOSE i \in DOMAIN dtype.fields : dtype.fields[i].name = name].base

Scalar == [scalar |-> TRUE, ndarray |-> FALSE, shape |-> <<>>, dtype |-> PlainType("f8")]

Array(shape, dtype) == [scalar |-> FALSE, ndarray |-> TRUE, shape |-> shape, dtype |-> dtype]

\* the data of rank r gather_array works on: at depth 0 the argument, at
\* depth f > 0 the field data[name] of the f-th name of dtypes[0]
FrameData(c, r) ==
    IF c.frame[r] = 0 THEN c.data[r]
    ELSE Array(c.data[r].shape,
               PlainType(FieldBase(c.data[r].dtype, c.data[0].dtype.fields[c.frame[r]].name)))

\* shapes = mpicomm.allgather(data.shape), dtypes = mpicomm.allgather(data.dtype)
Shapes(c) == [r \in Ranks |-> FrameData(c, r).shape]

Dtypes(c) == [r \in Ranks |-> FrameData(c, r).dtype]

\* lines 94-95, on the root or on every rank
BadShape(c) == \E r \in Ranks \ {0} : Tail(Shapes(c)[r]) # Tail(Shapes(c)[0])

BadDtype(c) == \E r \in Ranks \ {0} : Dtypes(c)[r] # Dtypes(c)[0]

Raise(c, r, error) == [c EXCEPT !.at[r] = "raised", !.err[r] = error]

Goto(c, r, where) == [c EXCEPT !.at[r] = where]

\* gather_array returns on rank r: to the loop over the names of the
\* caller, or to the caller of the outermost call
Leave(c, r) ==
    IF c.frame[r] = 0 \/ c.frame[r] = Len(c.data[0].dtype.fields)
    THEN [c EXCEPT !.at[r] = "returned"]
    ELSE [c EXCEPT !.frame[r] = @ + 1, !.at[r] = "w_isscalar"]

\* lines 102-105
RaiseIfBad(c, r) ==
    IF BadShape(c) \/ BadDtype(c) THEN Raise(c, r, "ValueError") ELSE Goto(c, r, "w_allreduce")

\* the code of gather_array between two collective calls, on rank r
GatherCode(c, r) ==
    IF c.at[r] = "start" THEN Goto(c, r, "w_isscalar")
    ELSE IF c.at[r] = "a_isscalar"
    THEN IF \A q \in Ranks : FrameData(c, q).scalar THEN Goto(c, r, "w_scalars")
         ELSE IF FrameData(c, r).shape = <<>> THEN Raise(c, r, "IndexError")
         ELSE Goto(c, r, "w_shapes")
    ELSE IF c.at[r] = "a_scalars" THEN Leave(c, r)
    ELSE IF c.at[r] = "a_shapes"
    THEN IF Dtypes(c)[0].struct
         THEN IF \E q \in Ranks \ {0} : ~Dtypes(c)[q].struct THEN Raise(c, r, "TypeError")
              ELSE IF \E q \in Ranks \ {0} : Names(Dtypes(c)[q]) # Names(Dtypes(c)[0])
              THEN Raise(c, r, "ValueError")
              ELSE IF \E i \in DOMAIN Dtypes(c)[0].fields : Dtypes(c)[0].fields[i].base = "O"
              THEN Raise(c, r, "ValueError")
              ELSE Goto(c, r, "w_allreduce_names")
         ELSE IF Dtypes(c)[0].base = "O" THEN Raise(c, r, "ValueError")
         ELSE IF c.toall THEN RaiseIfBad(c, r)
         ELSE Goto(c, r, "w_bcast")
    ELSE IF c.at[r] = "a_allreduce_names"
    THEN [c EXCEPT !.frame[r] = 1, !.at[r] = "w_isscalar"]
    ELSE IF c.at[r] = "a_bcast" THEN RaiseIfBad(c, r)
    ELSE IF c.at[r] = "a_allreduce" THEN Goto(c, r, "w_gatherv")
    ELSE Leave(c, r)

\* counts.sum()
SumCounts(counts) == SumInt([i \in 0..Len(counts) |-> IF i = 0 THEN 0 ELSE counts[i]], 0, Len(counts))

\* the code of scatter_array between two collective calls, on rank r; the
\* data are those of the root, rank 0
ScatterCode(c, r) ==
    IF c.at[r] = "start"
    THEN IF c.counts[r] # <<>> /\ Len(c.counts[r][1]) # Cardinality(Ranks)
         THEN Raise(c, r, "ValueError")
         ELSE Goto(c, r, "w_bad_input")
    ELSE IF c.at[r] = "a_bad_input"
    THEN IF ~c.data[0].ndarray THEN Raise(c, r, "ValueError") ELSE Goto(c, r, "w_shape")
    ELSE IF c.at[r] = "a_shape"
    THEN IF c.data[0].dtype.base = "O"
            \/ \E i \in DOMAIN c.data[0].dtype.fields : c.data[0].dtype.fields[i].base = "O"
         THEN Raise(c, r, "ValueError")
         ELSE IF c.counts[r] = <<>> THEN Goto(c, r, "w_counts")
         ELSE IF SumCounts(c.counts[r][1]) # c.data[0].shape[1] THEN Raise(c, r, "ValueError")
         ELSE Goto(c, r, "w_scatterv")
    ELSE IF c.at[r] = "a_counts" THEN Goto(c, r, "w_scatterv")
    ELSE [c EXCEPT !.at[r] = "returned"]

\* the collective calls: "w_shapes" stands for the two allgather of shapes and
\* dtypes, "w_allreduce" for allreduce and allgather of the lengths,
\* "w_scatterv" for Barrier and Scatterv
Waits == {"w_isscalar", "w_scalars", "w_shapes", "w_allreduce_names", "w_bcast",
          "w_allreduce", "w_gatherv", "w_bad_input", "w_shape", "w_counts", "w_scatterv"}

\* the position after the collective call a rank waits in
After(where) ==
    IF where = "w_isscalar" THEN "a_isscalar" ELSE IF where = "w_scalars" THEN "a_scalars"
    ELSE IF where = "w_shapes" THEN "a_shapes"
    ELSE IF where = "w_allreduce_names" THEN "a_allreduce_names"
    ELSE IF where = "w_bcast" THEN "a_bcast" ELSE IF where = "w_allreduce" THEN "a_allreduce"
    ELSE IF where = "w_gatherv" THEN "a_gatherv" ELSE IF where = "w_bad_input" THEN "a_bad_input"
    ELSE IF where = "w_shape" THEN "a_shape" ELSE IF where = "w_counts" THEN "a_counts"
    ELSE "a_scatterv"

GatherData ==
    { Scalar, Array(<<2>>, PlainType("f8")), Array(<<3>>, PlainType("f8")),
      Array(<<2, 3>>, PlainType("f8")), Array(<<2>>, PlainType("i8")),
      Array(<<2>>, PlainType("O")),
      Array(<<2>>, StructType(<<Field("a", "f8"), Field("b", "f8")>>)),
      Array(<<3>>, StructType(<<Field("b", "f8"), Field("a", "f8")>>)),
      Array(<<2>>, StructType(<<Field("a", "f8"), Field("b", "i8")>>)),
      Array(<<2>>, StructType(<<Field("a", "f8"), Field("c", "f8")>>)),
      Array(<<2>>, StructType(<<Field("a", "O"), Field("b", "f8")>>)) }

\* what the root passes to scatter_array: None or a list, or an array
ScatterData ==
    { [scalar |-> FALSE, ndarray |-> FALSE, shape |-> <<3>>, dtype |-> PlainType("f8")],
      Array(<<3>>, PlainType("f8")), Array(<<3, 2>>, PlainType("i8")),
      Array(<<3>>, PlainType("O")) }

CountsSet == { <<>>, << <<2, 1>> >>, << <<3>> >>, << <<1, 1>> >> }

CollInit ==
    /\ cfg = [field |-> "none"]
    /\ call = 0
    /\ pc = [r \in Ranks |-> "idle"]
    /\ pos = [r \in Ranks |-> 0]
    /\ nsum = [r \in Ranks |-> <<>>]
    /\ xsum = [r \in Ranks |-> <<>>]
    /\ musum = [r \in Ranks |-> <<>>]
    /\ ysum = [r \in Ranks |-> <<>>]
    /\ out = [r \in Ranks |-> <<>>]
    /\ hist = <<>>
    /\ stat = [kind |-> "none"]
    /\ ret = [op |-> "none"]
    /\ prev = [op |-> "none"]
    /\ operands = <<>>
    /\ est = [stage |-> "none"]
    /\ dom = [stage |-> "none"]
    /\ ue = [stage |-> "none"]
    /\ \/ \E d0 \in GatherData, d1 \in GatherData, toall \in BOOLEAN :
             coll = [op |-> "gather", toall |-> toall,
                     data |-> [r \in Ranks |-> IF r = 0 THEN d0 ELSE d1],
                     counts |-> [r \in Ranks |-> <<>>],
                     at |-> [r \in Ranks |-> "start"], frame |-> [r \in Ranks |-> 0],
                     err |-> [r \in Ranks |-> "none"], moved |-> 0]
       \/ \E d0 \in ScatterData, c0 \in CountsSet, c1 \in CountsSet :
             coll = [op |-> "scatter", toall |-> FALSE,
                     data |-> [r \in Ranks |-> d0],
                     counts |-> [r \in Ranks |-> IF r = 0 THEN c0 ELSE c1],
                     at |-> [r \in Ranks |-> "start"], frame |-> [r \in Ranks |-> 0],
                     err |-> [r \in Ranks |-> "none"], moved |-> 0]

\* rank r runs gather_array up to its next collective call, raise or return
GatherStep(r) ==
    /\ coll.op = "gather"
    /\ coll.at[r] \notin Waits \cup {"raised", "returned"}
    /\ coll' = GatherCode(coll, r)
    /\ UNCHANGED <<pvars, stat, ret, prev, operands, est, ue, dom>>

\* rank r runs scatter_array up to its next collective call, raise or return
ScatterStep(r) ==
    /\ coll.op = "scatter"
    /\ coll.at[r] \notin Waits \cup {"raised", "returned"}
    /\ coll' = ScatterCode(coll, r)
    /\ UNCHANGED <<pvars, stat, ret, prev, operands, est, ue, dom>>

\* the collective call every rank waits in completes
Complete ==
    /\ coll.op # "none"
    /\ \A r \in Ranks : coll.at[r] \in Waits /\ coll.at[r] = coll.at[0] /\ coll.frame[r] = coll.frame[0]
    /\ coll' = [coll EXCEPT !.at = [r \in Ranks |-> After(coll.at[0])],
                            !.moved = IF coll.at[0] \in {"w_gatherv", "w_scatterv"}
                                      THEN @ + 1 ELSE @]
    /\ UNCHANGED <<pvars, stat, ret, prev, operands, est, ue, dom>>

CollNext ==
    \/ \E r \in Ranks : GatherStep(r)
    \/ \E r \in Ranks : ScatterStep(r)
    \/ Complete

CollSpec == CollInit /\ [][CollNext]_vars

(***************************************************************************)
(* scatter_array(data, counts=None, root=0) followed by gather_array of    *)
(* the chunks, on a communicator of coll.size ranks.  The data on the root *)
(* are the numbers 1..n, so that every item is told from the others.       *)
(***************************************************************************)
\* largest communicator size
MaxComm == 4

\* largest global size
MaxSize == 6

\* variant of LocalSize: the global size divided by the number of ranks
LocalSizeEven(size, rank, commsize) == size \div commsize

\* local_size(size) on a rank of a communicator of commsize ranks
LocalSize(size, rank, commsize) ==
    ((rank + 1) * size) \div commsize - (rank * size) \div commsize

\* counts.cumsum() up to rank r, included
RECURSIVE CumSum(_, _)
CumSum(counts, r) == IF r < 0 THEN 0 ELSE counts[r] + CumSum(counts, r - 1)

\* offsets: zero, then offsets[1:] = counts.cumsum()[:-1]
Offsets(counts) == [r \in DOMAIN counts |-> IF r = 0 THEN 0 ELSE CumSum(counts, r - 1)]

\* the items a buffer holds at offsets[r] .. offsets[r] + counts[r] - 1
Chunk(buffer, counts, r) ==
    [k \in 1..counts[r] |-> buffer[Offsets(counts)[r] + k]]

\* the receive buffer of Gatherv / Allgatherv: the send buffer of rank r is
\* written at offsets[r]
Received(send, counts, length) ==
    [k \in 1..length |->
        LET r == CHOOSE q \in DOMAIN counts :
                     Offsets(counts)[q] < k /\ k <= Offsets(counts)[q] + counts[q]
        IN  send[r][k - Offsets(counts)[r]]]

CommRanks == 0..(coll.size - 1)

ChunkInit ==
    /\ cfg = [field |-> "none"]
    /\ call = 0
    /\ pc = [r \in Ranks |-> "idle"]
    /\ pos = [r \in Ranks |-> 0]
    /\ nsum = [r \in Ranks |-> <<>>]
    /\ xsum = [r \in Ranks |-> <<>>]
    /\ musum = [r \in Ranks |-> <<>>]
    /\ ysum = [r \in Ranks |-> <<>>]
    /\ out = [r \in Ranks |-> <<>>]
    /\ hist = <<>>
    /\ stat = [kind |-> "none"]
    /\ ret = [op |-> "none"]
    /\ prev = [op |-> "none"]
    /\ operands = <<>>
    /\ est = [stage |-> "none"]
    /\ dom = [stage |-> "none"]
    /\ ue = [stage |-> "none"]
    /\ \E p \in 1..MaxComm, n \in 0..MaxSize, toall \in BOOLEAN :
          coll = [op |-> "scatter_gather", size |-> p, toall |-> toall,
                  data |-> [k \in 1..n |-> k],
                  at |-> [r \in 0..(p - 1) |-> "local_size"],
                  newlength |-> [r \in 0..(p - 1) |-> 0],
                  counts |-> <<>>,
                  chunk |-> [r \in 0..(p - 1) |-> <<>>],
                  gathered |-> [r \in 0..(p - 1) |-> <<>>]]

\* scatter_array on rank r: newshape[0] = newlength = local_size(shape[0]),
\* the shape being known on every rank
ScatterLocalSize(r) ==
    /\ coll.op = "scatter_gather"
    /\ coll.at[r] = "local_size"
    /\ coll' = [coll EXCEPT !.newlength[r] = LocalSize(Len(coll.data), r, coll.size),
                            !.at[r] = "allgather"]
    /\ UNCHANGED <<pvars, stat, ret, prev, operands, est, ue, dom>>

\* counts = allgather(newlength), then Barrier and Scatterv from the root:
\* every rank returns its receive buffer
Scatterv ==
    /\ coll.op = "scatter_gather"
    /\ \A r \in CommRanks : coll.at[r] = "allgather"
    /\ coll' = [coll EXCEPT !.counts = <<coll.newlength>>,
                            !.chunk = [r \in CommRanks |-> Chunk(coll.data, coll.newlength, r)],
                            !.at = [r \in CommRanks |-> "scattered"]]
    /\ UNCHANGED <<pvars, stat, ret, prev, operands, est, ue, dom>>

\* gather_array of the chunks, on rank r up to its first collective call on
\* the lengths
GatherLength(r) ==
    /\ coll.op = "scatter_gather"
    /\ coll.at[r] = "scattered"
    /\ coll' = [coll EXCEPT !.newlength[r] = Len(coll.chunk[r]), !.at[r] = "allreduce"]
    /\ UNCHANGED <<pvars, stat, ret, prev, operands, est, ue, dom>>

\* newlength = allreduce(local_length), counts = allgather(local_length),
\* then Gatherv to the root, or Allgatherv
Gatherv ==
    /\ coll.op = "scatter_gather"
    /\ \A r \in CommRanks : coll.at[r] = "allreduce"
    /\ coll' = [coll EXCEPT
                  !.counts = <<coll.newlength>>,
                  !.gathered = [r \in CommRanks |->
                                  IF coll.toall \/ r = 0
                                  THEN <<Received(coll.chunk, coll.newlength,
                                                  CumSum(coll.newlength, coll.size - 1))>>
                                  ELSE <<>>],
                  !.at = [r \in CommRanks |-> "gathered"]]
    /\ UNCHANGED <<pvars, stat, ret, prev, operands, est, ue, dom>>

ChunkNext ==
    \/ \E r \in CommRanks : ScatterLocalSize(r)
    \/ Scatterv
    \/ \E r \in CommRanks : GatherLength(r)
    \/ Gatherv

ChunkSpec == ChunkInit /\ [][ChunkNext]_vars

(***************************************************************************)
(* domain_decompose, up to the grid of the domain.  Every value is the     *)
(* same on all ranks; the collective calls return on all of them together. *)
(***************************************************************************)
\* largest communicator size
MaxProcs == 30

\* int(s ** (1. / 3.)) and int(s ** 0.5) when the power is exact
ICbrt(s) == CHOOSE m \in 0..s : m * m * m <= s /\ (m + 1) * (m + 1) * (m + 1) > s

ISqrt(s) == CHOOSE m \in 0..s : m * m <= s /\ (m + 1) * (m + 1) > s

\* the roundings of int(s ** (1. / 3.)): the power of a perfect cube may
\* fall just below its root
CbrtSet(s) ==
    IF ICbrt(s) * ICbrt(s) * ICbrt(s) = s /\ s > 1 THEN {ICbrt(s) - 1, ICbrt(s)} ELSE {ICbrt(s)}

SqrtSet(s) == IF ISqrt(s) * ISqrt(s) = s /\ s > 1 THEN {ISqrt(s) - 1, ISqrt(s)} ELSE {ISqrt(s)}

\* the while loops of split_size_3d: the value of the counter when the loop
\* is left, the first divisor of s from a downwards, or 1
RECURSIVE DivisorFrom(_, _)
DivisorFrom(s, a) ==
    IF a > 1 THEN IF s % a = 0 THEN a ELSE DivisorFrom(s, a - 1) ELSE a

\* s after a while loop of split_size_3d
Quotient(s, a) == IF a > 1 THEN s \div a ELSE s

\* split_size_3d(s), with r3 = int(s ** (1. / 3.)) and the rounding down
\* (0 or 1) of the square root
split_size_3d(s, r3, down) ==
    LET a == DivisorFrom(s, r3 + 1)
        s1 == Quotient(s, a)
        r2 == IF ISqrt(s1) - down \in SqrtSet(s1) THEN ISqrt(s1) - down ELSE ISqrt(s1)
        b == DivisorFrom(s1, r2 + 1)
    IN  <<a, b, Quotient(s1, b)>>

\* tuple * k: the tuple, k times over
RECURSIVE Repeat(_, _)
Repeat(t, k) == IF k <= 0 THEN <<>> ELSE t \o Repeat(t, k - 1)

\* the default of domain_factor
DomainFactor(c) ==
    IF c.domain_factor # <<>> THEN c.domain_factor[1] ELSE IF c.periodic THEN 1 ELSE 2

\* grid: one np.linspace(pmin, pmax, grid + 1) per item of
\* zip(posmin, posmax, ngrid); the numbers of points
GridPoints(ngrid) == [a \in 1..(IF Len(ngrid) < 3 THEN Len(ngrid) ELSE 3) |-> ngrid[a] + 1]

DomInit ==
    /\ cfg = [field |-> "none"]
    /\ call = 0
    /\ pc = [r \in Ranks |-> "idle"]
    /\ pos = [r \in Ranks |-> 0]
    /\ nsum = [r \in Ranks |-> <<>>]
    /\ xsum = [r \in Ranks |-> <<>>]
    /\ musum = [r \in Ranks |-> <<>>]
    /\ ysum = [r \in Ranks |-> <<>>]
    /\ out = [r \in Ranks |-> <<>>]
    /\ hist = <<>>
    /\ stat = [kind |-> "none"]
    /\ ret = [op |-> "none"]
    /\ prev = [op |-> "none"]
    /\ operands = <<>>
    /\ est = [stage |-> "none"]
    /\ ue = [stage |-> "none"]
    /\ coll = [op |-> "none"]
    /\ \E p \in 1..MaxProcs, periodic \in BOOLEAN, f \in { <<>>, <<1>>, <<2>>, <<3>> },
          n1 \in {0, 5} :
          dom = [stage |-> "called", size |-> p, periodic |-> periodic, domain_factor |-> f,
                 size1 |-> n1, split |-> <<>>, ngrid |-> <<>>, grid |-> <<>>]

\* one rank only, or no position at all: the inputs are returned as they are
ReturnInputs ==
    /\ dom.stage = "called"
    /\ dom.size = 1 \/ dom.size1 = 0
    /\ dom' = [dom EXCEPT !.stage = "returned"]
    /\ UNCHANGED <<pvars, stat, ret, prev, operands, est, ue, coll>>

\* ngrid = split_size_3d(mpicomm.size)
SplitSize ==
    /\ dom.stage = "called"
    /\ ~(dom.size = 1 \/ dom.size1 = 0)
    /\ \E r3 \in CbrtSet(dom.size), down \in {0, 1} :
          dom' = [dom EXCEPT !.stage = "split", !.split = split_size_3d(dom.size, r3, down),
                             !.ngrid = split_size_3d(dom.size, r3, down)]
    /\ UNCHANGED <<pvars, stat, ret, prev, operands, est, ue, coll>>

\* ngrid *= domain_factor, ngrid being a tuple
ApplyFactor ==
    /\ dom.stage = "split"
    /\ dom' = [dom EXCEPT !.stage = "factor", !.ngrid = Repeat(dom.split, DomainFactor(dom))]
    /\ UNCHANGED <<pvars, stat, ret, prev, operands, est, ue, coll>>

\* grid = [np.linspace(pmin, pmax, grid + 1) for pmin, pmax, grid in zip(...)]
MakeGrid ==
    /\ dom.stage = "factor"
    /\ dom' = [dom EXCEPT !.stage = "grid", !.grid = GridPoints(dom.ngrid)]
    /\ UNCHANGED <<pvars, stat, ret, prev, operands, est, ue, coll>>

DomNext ==
    \/ ReturnInputs
    \/ SplitSize
    \/ ApplyFactor
    \/ MakeGrid

DomSpec == DomInit /\ [][DomNext]_vars

(***************************************************************************)
(* Properties of the statistics.                                           *)
(***************************************************************************)
\* bin t of st contains 0: lower edge <= 0 < upper edge on every axis
HoldsZero(st, t) == \A a \in 1..NDim(st) : st.edges[a][t[a]] <= 0 /\ 0 < st.edges[a][t[a] + 1]

\* the corrections of get_power composed on entry t of leading index l
Composed(st, f, l, t) ==
    LET direct == IF f.add_direct THEN CAdd(st.power_nonorm[l][t], st.power_direct_nonorm[l][t])
                  ELSE st.power_nonorm[l][t]
        noshot == IF f.remove_shotnoise THEN CSubReal(direct, st.shotnoise_nonorm) ELSE direct
        nulled == IF f.null_zero_mode /\ HoldsZero(st, t)
                  THEN CSub(noshot, CDivReal(st.power_zero_nonorm[l], Real(st.nmodes[t])))
                  ELSE noshot
    IN  IF f.divide_wnorm THEN CDivReal(nulled, st.wnorm) ELSE nulled

\* C8: get_power of the base class returns, in every bin, power_nonorm plus
\* power_direct_nonorm iff add_direct, minus shotnoise_nonorm iff
\* remove_shotnoise, minus power_zero_nonorm / nmodes in the one bin that
\* contains 0 on every axis iff null_zero_mode, divided by wnorm iff
\* divide_wnorm (its real part when complex is False); the call leaves every
\* attribute of the statistic unchanged, and a second call with the same flags
\* returns the same array.
C8_GetPowerComposes ==
    (ret.op = "get_power" /\ ret.before.kind = "wedge") =>
        /\ stat = ret.before
        /\ \A l \in Lead(ret.before) : \A t \in Indices(Shape(ret.before)) :
              ret.value[l][t] =
                  IF ret.arg.complex \/ ~ret.before.iscomplex
                  THEN Composed(ret.before, ret.arg, l, t)
                  ELSE RealPart(Composed(ret.before, ret.arg, l, t))
        /\ prev.op = "get_power" => prev.value = ret.value

\* a second call with every correction on, on a statistic with the zero bin populated
C8_Witness ==
    /\ ret.op = "get_power" /\ ret.before.kind = "wedge" /\ prev.op = "get_power"
    /\ ret.arg.add_direct /\ ret.arg.remove_shotnoise /\ ret.arg.null_zero_mode
    /\ ret.arg.divide_wnorm
    /\ \E t \in Indices(Shape(ret.before)) : HoldsZero(ret.before, t) /\ ret.before.nmodes[t] > 0
    /\ ret.value # ret.before.power_nonorm

\* np.imag of an entry: zero for an entry of an array of real dtype
ImagOf(z) == IF z[2] = Absent THEN <<Real(0), Absent>> ELSE <<z[2], Absent>>

\* C9: get_power of multipoles with remove_shotnoise subtracts the shot noise
\* from the monopole only: a multipole with ell # 0 is returned as without
\* remove_shotnoise, power(ell) + (ell = 0) * shotnoise is the power without
\* remove_shotnoise for every ell, and with complex False the real part is
\* returned for even ell, the imaginary part for odd ell.
C9_MonopoleShotnoise ==
    (ret.op = "get_power" /\ ret.before.kind = "multipole") =>
        LET st == ret.before
            f == ret.arg
            noshot == PolesGetPower(st, [f EXCEPT !.remove_shotnoise = FALSE]).toret
            cplx == PolesGetPower(st, [f EXCEPT !.complex = TRUE]).toret
            shot == IF f.divide_wnorm THEN NDiv(st.shotnoise_nonorm, st.wnorm)
                    ELSE st.shotnoise_nonorm
        IN  /\ \A l \in Lead(st) : st.ells[l] # 0 => ret.value[l] = noshot[l]
            /\ \A l \in Lead(st) : \A t \in Indices(Shape(st)) :
                  LET i == ListIndex(st.ells, st.ells[l])
                  IN  IF f.remove_shotnoise /\ st.ells[l] = 0
                      THEN CAdd(ret.value[i][t], <<shot, Real(0)>>) = noshot[i][t]
                      ELSE ret.value[i][t] = noshot[i][t]
            /\ ~f.complex => \A l \in Lead(st) : \A t \in Indices(Shape(st)) :
                  ret.value[l][t] = IF st.ells[l] % 2 = 0 THEN RealPart(cplx[l][t])
                                    ELSE ImagOf(cplx[l][t])

\* sum over the merged bins of value * nmodes, NaN values counted as 0
WeightedSum(arr, nmodes, G) ==
    SumComplexOver([u \in DOMAIN arr |-> CMulReal(NanToZero(arr[u]), Real(nmodes[u]))], G)

\* new is the nmodes weighted average of old over every group of merged bins
IsWeightedAverage(new, old, nmodes, new_nmodes, factor) ==
    \A t \in DOMAIN new :
        IF new_nmodes[t] = 0 THEN new[t] \in {<<NaN, NaN>>, <<NaN, Absent>>}
        ELSE CMulReal(new[t], Real(new_nmodes[t])) = WeightedSum(old, nmodes, Group(t, factor))

\* C10: rebin by factors dividing the shape merges each group of consecutive
\* bins: the new nmodes is the sum of the group's nmodes, modes, power_nonorm
\* and power_direct_nonorm are the sums of value * nmodes (NaN as 0) over the
\* group divided by the new nmodes, the edges are every factor-th old edge,
\* the shape is shape // factor, and with all nmodes 1 the new modes are the
\* plain means of the groups.
C10_RebinWeightedAverage ==
    (ret.op = "rebin" /\ ~ret.raised) =>
        LET old == ret.before
            fac == PadFactor(old, ret.arg)
            idx == Indices(Shape(stat))
        IN  /\ \A a \in 1..NDim(old) : Shape(stat)[a] = Shape(old)[a] \div fac[a]
            /\ \A a \in 1..NDim(old) : \A i \in 1..Len(stat.edges[a]) :
                  stat.edges[a][i] = old.edges[a][(i - 1) * fac[a] + 1]
            /\ DOMAIN stat.nmodes = idx
            /\ \A t \in idx : stat.nmodes[t] = SumIntOver(old.nmodes, Group(t, fac))
            /\ \A a \in DOMAIN old.modes :
                  IsWeightedAverage(stat.modes[a], old.modes[a], old.nmodes, stat.nmodes, fac)
            /\ \A l \in Lead(old) :
                  /\ IsWeightedAverage(stat.power_nonorm[l], old.power_nonorm[l],
                                       old.nmodes, stat.nmodes, fac)
                  /\ IsWeightedAverage(stat.power_direct_nonorm[l], old.power_direct_nonorm[l],
                                       old.nmodes, stat.nmodes, fac)
            /\ (\A u \in DOMAIN old.nmodes : old.nmodes[u] = 1) =>
                  \A a \in DOMAIN old.modes : \A t \in idx :
                      CMulReal(stat.modes[a][t], Real(Cardinality(Group(t, fac)))) =
                          SumComplexOver(old.modes[a], Group(t, fac))

\* a rebinning that merged bins of different, positive nmodes
C10_Witness ==
    /\ ret.op = "rebin" /\ ~ret.raised
    /\ \E t \in Indices(Shape(stat)) : \E u, v \in Group(t, PadFactor(ret.before, ret.arg)) :
          /\ 0 < ret.before.nmodes[u] /\ ret.before.nmodes[u] < ret.before.nmodes[v]
          /\ ret.before.power_nonorm[1][u] # ret.before.power_nonorm[1][v]

\* C11: rebin(1) is a no-op: after a rebin with every factor 1 the arrays
\* edges, modes, nmodes, power_nonorm and power_direct_nonorm are, entry by
\* entry, what they were before the call, also with empty bins and NaN entries.
C11_RebinOneNoOp ==
    (ret.op = "rebin" /\ ~ret.raised
        /\ \A a \in 1..NDim(ret.before) : PadFactor(ret.before, ret.arg)[a] = 1) =>
        /\ stat.edges = ret.before.edges
        /\ stat.nmodes = ret.before.nmodes
        /\ stat.modes = ret.before.modes
        /\ stat.power_nonorm = ret.before.power_nonorm
        /\ stat.power_direct_nonorm = ret.before.power_direct_nonorm

\* the arrays of st have the shape given by its edges, which increase
Consistent(st) ==
    /\ \A a \in 1..NDim(st) :
          /\ Len(st.edges[a]) = st.ashape[a] + 1
          /\ \A i \in 1..(Len(st.edges[a]) - 1) : st.edges[a][i] < st.edges[a][i + 1]
    /\ DOMAIN st.nmodes = Indices(Shape(st))
    /\ \A a \in DOMAIN st.modes : DOMAIN st.modes[a] = Indices(Shape(st))
    /\ \A l \in Lead(st) :
          /\ DOMAIN st.power_nonorm[l] = Indices(Shape(st))
          /\ DOMAIN st.power_direct_nonorm[l] = Indices(Shape(st))

\* C12: a slice, select, rebin or __getitem__ that returns without raising, for
\* every start and stop (start > stop and empty selections included), leaves
\* (and, for __getitem__, returns) a statistic with len(edges[axis]) =
\* nmodes.shape[axis] + 1 on every axis, the trailing dimensions of
\* power_nonorm, power_direct_nonorm and of each modes array equal to the shape
\* derived from the edges, and strictly increasing edges.
C12_ShapesConsistent ==
    (ret.op \in {"slice", "select", "rebin", "getitem"} /\ ~ret.raised
        /\ Consistent(ret.before)) =>
        /\ Consistent(stat)
        /\ ret.op = "getitem" => Consistent(ret.value[1])

\* bin i (numbered from 0) of an axis of n bins is at or after the start of sl
FromStart(sl, n, i) ==
    \/ sl.start = <<>>
    \/ sl.start # <<>> /\ sl.start[1] >= 0 /\ i >= sl.start[1]
    \/ sl.start # <<>> /\ sl.start[1] < 0 /\ i >= n + sl.start[1]

\* bin i (numbered from 0) of an axis of n bins is before the stop of sl
BeforeStop(sl, n, i) ==
    \/ sl.stop = <<>>
    \/ sl.stop # <<>> /\ sl.stop[1] >= 0 /\ i < sl.stop[1]
    \/ sl.stop # <<>> /\ sl.stop[1] < 0 /\ i < n + sl.stop[1]

\* start and stop of sl resolved as for a sequence of length n
ResolvedStart(sl, n) == Cardinality({i \in 0..(n - 1) : ~FromStart(sl, n, i)})

ResolvedStop(sl, n) == Cardinality({i \in 0..(n - 1) : BeforeStop(sl, n, i)})

\* the slice of an axis: the one given, or slice(None) for an axis not mentioned
AxisSlice(slices, a) == IF a <= Len(slices) THEN slices[a] ELSE SliceNone

\* the bins (numbered from 0) with index in [start, stop)
KeptBins(st, slices, a) ==
    {i \in 0..(Shape(st)[a] - 1) :
        FromStart(AxisSlice(slices, a), Shape(st)[a], i)
            /\ BeforeStop(AxisSlice(slices, a), Shape(st)[a], i)}

\* the edges (numbered from 0) start..stop inclusive
KeptEdges(st, slices, a) ==
    ResolvedStart(AxisSlice(slices, a), Shape(st)[a])..ResolvedStop(AxisSlice(slices, a), Shape(st)[a])

\* entry t of the cut arrays is the entry of the old arrays at the t-th kept bin
KeptIndex(st, slices, t) ==
    [a \in DOMAIN t |-> t[a] + ResolvedStart(AxisSlice(slices, a), Shape(st)[a])]

\* st cut to the kept bins and edges, every other attribute as it was
Kept(st, slices) ==
    LET new_shape == [a \in 1..NDim(st) |-> Cardinality(KeptBins(st, slices, a))]
        idx == Indices(new_shape)
    IN  [kind |-> st.kind, ells |-> st.ells, iscomplex |-> st.iscomplex,
         edges |-> [a \in 1..NDim(st) |->
                      [i \in 1..Cardinality(KeptEdges(st, slices, a)) |->
                          st.edges[a][i + ResolvedStart(AxisSlice(slices, a), Shape(st)[a])]]],
         ashape |-> new_shape,
         nmodes |-> [t \in idx |-> st.nmodes[KeptIndex(st, slices, t)]],
         modes |-> [a \in DOMAIN st.modes |->
                      [t \in idx |-> st.modes[a][KeptIndex(st, slices, t)]]],
         power_nonorm |-> [l \in Lead(st) |->
                      [t \in idx |-> st.power_nonorm[l][KeptIndex(st, slices, t)]]],
         power_direct_nonorm |-> [l \in Lead(st) |->
                      [t \in idx |-> st.power_direct_nonorm[l][KeptIndex(st, slices, t)]]],
         power_zero_nonorm |-> st.power_zero_nonorm,
         wnorm |-> st.wnorm, shotnoise_nonorm |-> st.shotnoise_nonorm]

\* the steps of the slices, 1 for a step of None and for an axis not mentioned
Steps(st, slices) ==
    [a \in 1..NDim(st) |->
        IF AxisSlice(slices, a).step = <<>> THEN 1 ELSE AxisSlice(slices, a).step[1]]

\* the kept range, rebinned by the steps if one of them is greater than 1
KeptRebinned(st, slices) ==
    IF \A a \in 1..NDim(st) : Steps(st, slices)[a] = 1 THEN Kept(st, slices)
    ELSE Rebin(Kept(st, slices), Steps(st, slices))

\* C13: a slice with positive steps that returns keeps exactly the bins with
\* original index in [start, stop), None and negative bounds resolved as for a
\* sequence of length shape[axis], with the edges start..stop inclusive, keeps
\* whole the axes not mentioned, and then rebins the kept range by the steps
\* if one is greater than 1; statistic[...] returns a new instance obtained
\* this way and leaves the statistic unchanged.
C13_SliceHalfOpen ==
    (ret.op \in {"slice", "getitem"} /\ ~ret.raised /\ Consistent(ret.before)) =>
        /\ ret.op = "slice" => stat = KeptRebinned(ret.before, ret.arg)
        /\ ret.op = "getitem" =>
              /\ ret.value[1] = KeptRebinned(ret.before, ret.arg)
              /\ stat = ret.before

\* statistic[0:4:2] of four bins: two bins in the new instance, four in the old
C13_Witness ==
    /\ ret.op = "getitem" /\ ~ret.raised /\ Consistent(ret.before)
    /\ ret.arg[1].step = <<2>>
    /\ ret.value[1].ashape[1] = 2
    /\ stat.ashape[1] = 4

\* the bins of the axis whose mode-weighted average x satisfies lo <= x <= hi:
\* the bins with modes counted and lo * N <= S <= hi * N, N being the sum of
\* nmodes and S the sum of modes * nmodes over the other axes
InLimits(st, a, xlim) ==
    {i \in 1..Shape(st)[a] :
        LET N == SumIntOver(st.nmodes, AlongAxis(st, a, i))
            S == WeightedSum(st.modes[a], st.nmodes, AlongAxis(st, a, i))[1]
        IN  /\ N > 0
            /\ NLeq(NMul(xlim[1], Real(N)), S)
            /\ NLeq(S, NMul(xlim[2], Real(N)))}

\* the range of bins select keeps on an axis, as a slice
SelectedRange(st, xlims, a) ==
    IF xlims[a] = <<>> THEN SliceNone
    ELSE IF InLimits(st, a, xlims[a]) = {} THEN Sl(<<0>>, <<0>>, <<>>)
    ELSE Sl(<<Min(InLimits(st, a, xlims[a])) - 1>>, <<Max(InLimits(st, a, xlims[a]))>>, <<>>)

\* C14: select keeps on each axis exactly the bins from the first to the last
\* bin whose mode-weighted average x satisfies lo <= x <= hi, the bins in
\* between included also when their average is NaN, with the edges of the
\* kept bins; a limit of None keeps the axis whole and no matching bin leaves
\* zero bins; select((0.1, 0.3)) on the monopole with k-edges every 0.01 from
\* 0 to 0.5 and the modes at the mid-points leaves 20 bins, edges from 0.1 to
\* 0.3.
C14_SelectRange ==
    (ret.op = "select" /\ ~ret.raised /\ Consistent(ret.before)) =>
        /\ stat = Kept(ret.before, [a \in DOMAIN ret.arg |-> SelectedRange(ret.before, ret.arg, a)])
        /\ \A a \in DOMAIN ret.arg :
              /\ ret.arg[a] = <<>> => stat.ashape[a] = ret.before.ashape[a]
              /\ (ret.arg[a] # <<>> /\ InLimits(ret.before, a, ret.arg[a]) = {}) =>
                    stat.ashape[a] = 0
        /\ (ret.before = ScenarioSample /\ ret.arg = <<<<Real(10), Real(30)>>>>) =>
              /\ stat.ashape = <<20>>
              /\ Len(stat.edges[1]) = 21
              /\ stat.edges[1][1] = 10 /\ stat.edges[1][21] = 30

\* select((0.1, 0.3)) called on the monopole of 50 bins
C14_Witness ==
    /\ ret.op = "select" /\ ~ret.raised
    /\ ret.before = ScenarioSample /\ ret.arg = <<<<Real(10), Real(30)>>>>
    /\ stat.ashape = <<20>>

\* the sum of a sequence of real numbers, the last ones added first
RECURSIVE Total(_)
Total(seq) == IF seq = <<>> THEN Real(0) ELSE NAdd(Head(seq), Total(Tail(seq)))

IsPresent(x) == x # Absent

\* the sum of a sequence of entries: complex as soon as one entry is complex
TotalEntry(seq) ==
    <<Total([i \in DOMAIN seq |-> seq[i][1]]),
      IF \A i \in DOMAIN seq : seq[i][2] = Absent THEN Absent
      ELSE Total(SelectSeq([i \in DOMAIN seq |-> seq[i][2]], IsPresent))>>

\* new holds the sums of the summed attributes of others
HoldsSums(new, others) ==
    /\ \A l \in Lead(new) : \A t \in Indices(new.ashape) :
          /\ new.power_nonorm[l][t] =
                TotalEntry([i \in DOMAIN others |-> others[i].power_nonorm[l][t]])
          /\ new.power_direct_nonorm[l][t] =
                TotalEntry([i \in DOMAIN others |-> others[i].power_direct_nonorm[l][t]])
    /\ \A l \in Lead(new) :
          new.power_zero_nonorm[l] = TotalEntry([i \in DOMAIN others |-> others[i].power_zero_nonorm[l]])
    /\ new.shotnoise_nonorm = Total([i \in DOMAIN others |-> others[i].shotnoise_nonorm])
    /\ new.wnorm = Total([i \in DOMAIN others |-> others[i].wnorm])

\* new has the attributes of first that are not summed
HoldsRest(new, first) ==
    /\ new.kind = first.kind /\ new.ells = first.ells /\ new.iscomplex = first.iscomplex
    /\ new.edges = first.edges /\ new.ashape = first.ashape
    /\ new.modes = first.modes /\ new.nmodes = first.nmodes

\* the attributes that sum adds
Summed(st) ==
    <<st.power_nonorm, st.power_zero_nonorm, st.power_direct_nonorm, st.shotnoise_nonorm, st.wnorm>>

\* the operands of the last call, in the order they were passed
Passed == [m \in DOMAIN ret.arg |-> ret.before[ret.arg[m]]]

\* C15: sum(a_1, ..., a_n), when it returns, returns a new statistic whose
\* power_nonorm, power_zero_nonorm, power_direct_nonorm, shotnoise_nonorm and
\* wnorm are the sums of those of the operands and whose edges, modes and
\* nmodes are those of a_1, and leaves every operand as it was; a + b is
\* sum(a, b), 0 + a is a copy of a, the built-in sum of a list is the class
\* sum of its elements, and the summed attributes are the same in every order
\* of the operands.
C15_SumAddsNonorm ==
    (ret.op \in {"sum", "add", "radd", "builtin_sum"}) =>
        /\ operands = ret.before
        /\ ret.op = "sum" =>
              /\ ret.raised <=> \E m \in DOMAIN Passed :
                                   \/ Lead(Passed[m]) # Lead(Passed[1])
                                   \/ Passed[m].ashape # Passed[1].ashape
              /\ ~ret.raised =>
                    /\ HoldsSums(ret.value[1], Passed)
                    /\ HoldsRest(ret.value[1], Passed[1])
                    /\ \A o \in Orders(Len(ret.arg)) :
                          LET other == Sum([m \in DOMAIN o |-> Passed[o[m]]])
                          IN  ~other.raised /\ Summed(other.new[1]) = Summed(ret.value[1])
        /\ ret.op = "add" =>
              /\ ret.raised = Sum(Passed).raised
              /\ ret.value = Sum(Passed).new
        /\ ret.op = "radd" => ~ret.raised /\ ret.value = <<Passed[1]>>
        /\ ret.op = "builtin_sum" =>
              /\ ret.raised = Sum(Passed).raised
              /\ ret.value = Sum(Passed).new

\* the built-in sum of three statistics of different norms, one of real dtype,
\* one with empty bins
C15_Witness ==
    /\ ret.op = "builtin_sum" /\ ~ret.raised /\ Len(ret.arg) = 3
    /\ \E i, j \in DOMAIN Passed :
          /\ ~Passed[i].iscomplex /\ Passed[j].iscomplex
          /\ Passed[i].wnorm # Passed[j].wnorm
    /\ \E t \in DOMAIN Passed[1].nmodes : Passed[1].nmodes[t] = 0
    /\ ret.value[1].wnorm # Passed[1].wnorm
    /\ ret.value[1].power_nonorm # Passed[1].power_nonorm

(***************************************************************************)
(* C16.                                                                    *)
(***************************************************************************)
LocalLos(args) == args.los = <<>> \/ args.los[1] \in {"firstpoint", "endpoint"}

\* the cases in which the construction has to fail
ConfigurationError(args) ==
    \/ args.los # <<>> /\ args.los[1] \notin {"firstpoint", "endpoint", "x", "y", "z"}
    \/ args.ells # <<>> /\ \E i \in DOMAIN args.ells[1] : args.ells[1][i] < 0
    \/ LocalLos(args) /\ (args.ells = <<>> \/ args.ells[1] = <<>>)
    \/ args.mesh2 # <<>> /\ args.mesh2[1].boxsize # args.mesh1.boxsize
    \/ args.mesh2 # <<>> /\ args.mesh2[1].nmesh # args.mesh1.nmesh
    \/ args.mesh2 # <<>> /\ args.mesh2[1].comm # args.mesh1.comm
    \/ \E a \in 1..3 : args.mesh1.nmesh[a] % 2 = 1
    \/ LocalLos(args) /\ args.muedges # <<>>
    \/ Len(args.kedges) < 2
    \/ args.muedges # <<>> /\ Len(args.muedges[1]) < 2

\* the construction failed in its setup, on every rank, and nothing was computed
FailedInSetup ==
    /\ est.stage = "raised"
    /\ \A r \in Ranks : est.error[r] # "none"
    /\ est.r2c = 0
    /\ est.projections = 0
    /\ est.poles = <<>>
    /\ est.wedges = <<>>

\* C16: in each of the listed cases (unknown line-of-sight keyword, negative
\* multipole, no multipoles with a local line-of-sight, mismatched box size,
\* mesh shape or communicator, odd mesh size, mu-edges with a local
\* line-of-sight, fewer than 2 edges) the construction raises during setup,
\* before run(): no forward transform, no projection, neither poles nor wedges.
C16_SetupRaises ==
    (est.stage # "none" /\ ConfigurationError(est.args)) => FailedInSetup

(***************************************************************************)
(* C18.                                                                    *)
(***************************************************************************)
\* the position of the monopole among the multipoles of a statistic
MonopoleOf(poles) == CHOOSE l \in DOMAIN poles.ells : poles.ells[l] = 0

\* a local estimator has run after a global one with the single wedge
\* [-1, 1], on the same fields and k-edges, and both return a monopole
BothRan ==
    /\ est.stage = "done"
    /\ est.first # <<>>
    /\ GetLos(est.first[1].args.los).los_type = "global"
    /\ 0 \in SeqRange(est.first[1].poles.ells)
    /\ 0 \in SeqRange(est.poles[1].ells)

\* C18: with the same fields and k-edges, the monopole of the local
\* line-of-sight path equals the ell = 0 multipole of the global path along an
\* axis with the single mu-bin [-1, 1]: power_nonorm, power_zero_nonorm, nmodes
\* and mean k in every bin, for auto- and cross-correlations, with or without
\* higher multipoles.
C18_LocalMonopoleIsGlobal ==
    BothRan =>
        LET g == est.first[1].poles
            l == est.poles[1]
        IN  /\ l.power_nonorm[MonopoleOf(l)] = g.power_nonorm[MonopoleOf(g)]
            /\ l.power_zero_nonorm[MonopoleOf(l)] = g.power_zero_nonorm[MonopoleOf(g)]
            /\ l.nmodes = g.nmodes
            /\ l.modes = g.modes
            /\ l.edges = g.edges

\* a cross-correlation with the end point line-of-sight and higher
\* multipoles on both sides, the monopole non-zero in a bin
C18_Witness ==
    /\ BothRan
    /\ ~est.autocorr
    /\ est.los_type = "endpoint"
    /\ est.poles[1].ells = <<2, 0, 1>>
    /\ est.first[1].poles.ells = <<2, 0, 1>>
    /\ est.projections = 3
    /\ \E i \in DOMAIN est.poles[1].nmodes :
          /\ est.poles[1].nmodes[i] > 1
          /\ est.poles[1].power_nonorm[2][i].value.kind = "finite"
          /\ est.poles[1].power_nonorm[2][i].value.num # ZeroCVec

(***************************************************************************)
(* C19.                                                                    *)
(***************************************************************************)
\* a global estimator has returned the multipoles of an auto-correlation
GlobalAuto ==
    /\ est.stage = "done"
    /\ est.los_type = "global"
    /\ est.autocorr
    /\ est.poles # <<>>

\* the multipole at position l is zero in every bin that holds modes
Vanishes(poles, l) ==
    \A i \in DOMAIN poles.nmodes :
        poles.nmodes[i] > 0 =>
            /\ poles.power_nonorm[l][i].value.kind = "finite"
            /\ poles.power_nonorm[l][i].value.num = ZeroCVec

OddVanish(poles) == \A l \in DOMAIN poles.ells : poles.ells[l] % 2 = 1 => Vanishes(poles, l)

\* C19 as stated: for an auto-correlation every odd multipole of the global
\* line-of-sight path is zero in every valid bin.
C19_OddMultipolesVanish == GlobalAuto => OddVanish(est.poles[1])

\* the mu-edges run from -1 to 1
FullMuRange(muedges) ==
    muedges[1] = <<-1, 1>> /\ muedges[Len(muedges)] = <<1, 1>>

\* C19, amended: for an auto-correlation with mu-edges running from -1 to 1
\* every odd multipole of the global line-of-sight path is zero in every bin
\* below the Nyquist frequency that holds modes.
C19_OddMultipolesVanishFullRange ==
    (GlobalAuto /\ FullMuRange(MuEdgesOf(est.args.muedges))) => OddVanish(est.poles[1])

\* several wedges from -1 to 1, a bin where the dipole is zero and the
\* quadrupole is not
C19_Witness ==
    /\ GlobalAuto
    /\ Len(MuEdgesOf(est.args.muedges)) = 5
    /\ FullMuRange(MuEdgesOf(est.args.muedges))
    /\ est.poles[1].ells = <<2, 0, 1>>
    /\ \E i \in DOMAIN est.poles[1].nmodes :
          /\ est.poles[1].nmodes[i] > 1
          /\ est.poles[1].power_nonorm[3][i].value.num = ZeroCVec
          /\ est.poles[1].power_nonorm[3][i].value.kind = "finite"
          /\ est.poles[1].power_nonorm[1][i].value.num # ZeroCVec

(***************************************************************************)
(* C17.                                                                    *)
(***************************************************************************)
\* edge <= sqrt(v), exactly
EdgeLeqRoot(e, v) ==
    IF e.kind = "rat" THEN e.p * e.p <= v * e.q * e.q
    ELSE IF e.kind = "mid"
    THEN 4 * v - e.a - e.b >= 0 /\ 4 * e.a * e.b <= (4 * v - e.a - e.b) * (4 * v - e.a - e.b)
    ELSE \/ 9 * e.b - 4 * v - e.a <= 0
         \/ (9 * e.b - 4 * v - e.a) * (9 * e.b - 4 * v - e.a) <= 16 * e.a * v

\* sqrt(a) + sqrt(b) < sqrt(c) + sqrt(d), exactly
SumRootsLess(a, b, c, d) ==
    LET dd == a + b - c - d
        m == 4 * c * d + 4 * a * b - dd * dd
    IN  IF c * d >= a * b
        THEN dd < 0 \/ (m > 0 /\ m * m > 64 * a * b * c * d)
        ELSE dd < 0 /\ (m < 0 \/ 64 * a * b * c * d > m * m)

\* e < f, exactly, for an edge e that is not the last one
EdgeLess(e, f) ==
    IF e.kind = "rat" /\ f.kind = "rat" THEN e.p * f.q < f.p * e.q
    ELSE IF e.kind = "rat" /\ f.kind = "mid"
    THEN LET l == 4 * e.p * e.p - e.q * e.q * (f.a + f.b)
         IN  l < 0 \/ l * l < 4 * e.q * e.q * e.q * e.q * f.a * f.b
    ELSE IF e.kind = "rat" /\ f.kind = "ext"
    THEN LET n == 9 * f.b * e.q * e.q - 4 * e.p * e.p - f.a * e.q * e.q
         IN  n > 0 /\ 16 * e.p * e.p * e.q * e.q * f.a < n * n
    ELSE IF e.kind = "mid" /\ f.kind = "mid" THEN SumRootsLess(e.a, e.b, f.a, f.b)
    ELSE IF e.kind = "mid" /\ f.kind = "rat"
    THEN LET l == 4 * f.p * f.p - f.q * f.q * (e.a + e.b)
         IN  l >= 0 /\ l * l > 4 * f.q * f.q * f.q * f.q * e.a * e.b
    ELSE IF e.kind = "mid" /\ f.kind = "ext"
    THEN LET k == 9 * f.b + f.a - e.a - e.b
             m == k * k - 4 * e.a * e.b - 36 * f.a * f.b
         IN  9 * f.b > f.a /\ k > 0 /\ m > 0 /\ 576 * e.a * e.b * f.a * f.b < m * m
    ELSE FALSE

\* the distinct squared norms within [xmin, xmax] present on any rank
NormsInBounds ==
    {n2 \in UNION {SeqRange(LocalNorms(ue.split, r)) : r \in Ranks} :
        InBounds(n2, ue.xmin, ue.xmax)}

\* the bin [e[i], e[i + 1]) holds exactly one of the norms
OneNormIn(e, i) ==
    Cardinality({n2 \in NormsInBounds : EdgeLeqRoot(e[i], n2) /\ ~EdgeLeqRoot(e[i + 1], n2)}) = 1

\* what a single rank holding every coordinate returns
OneRankEdges ==
    MakeEdges(UniqueLocal(LocalNorms(4, 0), ue.xmin, ue.xmax)
              \o UniqueLocal(LocalNorms(4, 1), ue.xmin, ue.xmax), ue.xmin, ue.xmax)

\* C17: the edges find_unique_edges returns are strictly increasing, start at
\* xmin, each bin [edges[i], edges[i+1]) holds exactly one of the distinct
\* norms within [xmin, xmax] present on any rank (also when xmax is the
\* largest norm), and they are the same on every rank and for every partition
\* of the coordinates.
C17_UniqueEdges ==
    \A r \in Ranks :
        (ue.stage = "called" /\ ue.at[r] = "done" /\ ~ue.result[r][1].raised) =>
            LET e == ue.result[r][1].edges
            IN  /\ \A i \in 1..(Len(e) - 1) : EdgeLess(e[i], e[i + 1])
                /\ e[1] = RatEdge(ue.xmin)
                /\ \A i \in 1..(Len(e) - 1) : OneNormIn(e, i)
                /\ \A q \in Ranks : ue.at[q] = "done" => ue.result[q] = ue.result[r]
                /\ ue.result[r][1] = OneRankEdges

(***************************************************************************)
(* C20.                                                                    *)
(***************************************************************************)
\* a rank has raised while another one waits in a collective call
RaisedWhileBlocked ==
    /\ \E r \in Ranks : coll.at[r] = "raised"
    /\ \E q \in Ranks : coll.at[q] \in Waits

\* every rank passes an array to gather_array, and the trailing shapes or
\* the dtypes differ
GatherMismatch ==
    /\ coll.op = "gather"
    /\ \A r \in Ranks : ~coll.data[r].scalar
    /\ \E r \in Ranks : \/ Tail(coll.data[r].shape) # Tail(coll.data[0].shape)
                        \/ coll.data[r].dtype # coll.data[0].dtype

\* no rank returns or raises anything but ValueError, and no data have moved
OnlyValueError ==
    /\ coll.moved = 0
    /\ \A r \in Ranks : coll.at[r] # "returned" /\ coll.err[r] \in {"none", "ValueError"}

\* C20: in gather_array and scatter_array, differing trailing shapes or
\* dtypes make every rank raise ValueError before Gatherv / Allgatherv, data
\* on the root that are no numpy array make every rank raise ValueError before
\* Scatterv, and never does one rank raise while another blocks in a
\* collective call.
C20_DetectedOnAllRanks ==
    /\ ~RaisedWhileBlocked
    /\ GatherMismatch => OnlyValueError
    /\ (coll.op = "scatter" /\ ~coll.data[0].ndarray) => OnlyValueError

(***************************************************************************)
(* C21.                                                                    *)
(***************************************************************************)
\* an end point estimator has run on (f2, f1) after a first point estimator
\* on (f1, f2), with the same edges and multipoles
SwappedRan ==
    /\ est.stage = "done"
    /\ est.first # <<>>
    /\ est.los_type = "endpoint"
    /\ GetLos(est.first[1].args.los).los_type = "firstpoint"
    /\ est.args.mesh1 = SecondMesh(est.first[1].args.mesh1, est.first[1].args.mesh2)
    /\ SecondMesh(est.args.mesh1, est.args.mesh2) = est.first[1].args.mesh1

\* the complex conjugate of an entry of power_nonorm or power_zero_nonorm
ConjAvgPower(p) == [p EXCEPT !.value = ConjAvg(@)]

ConjSumPower(p) == [p EXCEPT !.value = ConjSum(@)]

\* C21: for the local line-of-sight estimator, power_nonorm and
\* power_zero_nonorm with los = 'endpoint' on the fields (f1, f2) are the
\* complex conjugates of those with los = 'firstpoint' on (f2, f1), for every
\* requested multipole; for an auto-correlation 'endpoint' gives the conjugate
\* of 'firstpoint'.
C21_EndpointIsConjugate ==
    SwappedRan =>
        LET a == est.first[1].poles
            b == est.poles[1]
        IN  /\ b.ells = a.ells
            /\ \A l \in DOMAIN b.ells :
                  /\ \A i \in DOMAIN b.power_nonorm[l] :
                        b.power_nonorm[l][i] = ConjAvgPower(a.power_nonorm[l][i])
                  /\ b.power_zero_nonorm[l] = ConjSumPower(a.power_zero_nonorm[l])
            /\ b.nmodes = a.nmodes
            /\ b.modes = a.modes

\* a cross-correlation with the multipoles (2, 0, 1): a bin where the dipole
\* has an imaginary part, so that the conjugate differs
C21_Witness ==
    /\ SwappedRan
    /\ ~est.autocorr
    /\ est.poles[1].ells = <<2, 0, 1>>
    /\ \E i \in DOMAIN est.poles[1].nmodes :
          /\ est.poles[1].nmodes[i] > 1
          /\ est.poles[1].power_nonorm[3][i].value.kind = "finite"
          /\ \E s \in DOMAIN est.poles[1].power_nonorm[3][i].value.num :
                est.poles[1].power_nonorm[3][i].value.num[s][2] # 0
          /\ est.poles[1].power_nonorm[3][i] # est.first[1].poles.power_nonorm[3][i]

(***************************************************************************)
(* C22.                                                                    *)
(***************************************************************************)
\* the chunks of ranks 0..r, one after the other
RECURSIVE Joined(_, _)
Joined(chunks, r) == IF r < 0 THEN <<>> ELSE Joined(chunks, r - 1) \o chunks[r]

\* the local sizes of ranks 0..r, added
RECURSIVE SizesUpTo(_, _, _)
SizesUpTo(size, r, commsize) ==
    IF r < 0 THEN 0 ELSE LocalSize(size, r, commsize) + SizesUpTo(size, r - 1, commsize)

\* C22: the values local_size(size) over the ranks 0..p-1 are non-negative
\* and add up to size; scatter_array with counts=None gives rank r a chunk of
\* exactly that length, the chunks being consecutive in rank order, and
\* gathering the chunks in rank order gives the original array back.
C22_ScatterGatherRoundTrip ==
    (coll.op = "scatter_gather") =>
        /\ \A r \in CommRanks : LocalSize(Len(coll.data), r, coll.size) >= 0
        /\ SizesUpTo(Len(coll.data), coll.size - 1, coll.size) = Len(coll.data)
        /\ \A r \in CommRanks :
              coll.at[r] \in {"scattered", "allreduce", "gathered"} =>
                  /\ Len(coll.chunk[r]) = LocalSize(Len(coll.data), r, coll.size)
                  /\ coll.chunk[r] = SubSeq(coll.data, Len(Joined(coll.chunk, r - 1)) + 1,
                                            Len(Joined(coll.chunk, r)))
                  /\ Joined(coll.chunk, coll.size - 1) = coll.data
        /\ \A r \in CommRanks :
              coll.at[r] = "gathered" =>
                  coll.gathered[r] = IF coll.toall \/ r = 0 THEN <<coll.data>> ELSE <<>>

\* five items on three ranks, which do not divide them: the chunks hold 1, 2
\* and 2 items, and the root gets the five items back in order
C22_Witness ==
    /\ coll.op = "scatter_gather"
    /\ coll.size = 3
    /\ Len(coll.data) = 5
    /\ \A r \in CommRanks : coll.at[r] = "gathered"
    /\ coll.gathered[0] = <<coll.data>>
    /\ coll.counts = << [r \in 0..2 |-> IF r = 0 THEN 1 ELSE 2] >>

(***************************************************************************)
(* C30.                                                                    *)
(***************************************************************************)
\* C30: for every s >= 1, split_size_3d(s) returns three integers (a, b, c)
\* with a * b * c = s and a <= b <= c.
C30_SplitSize3d ==
    (dom.stage \in {"split", "factor", "grid"}) =>
        /\ Len(dom.split) = 3
        /\ dom.split[1] * dom.split[2] * dom.split[3] = dom.size
        /\ dom.split[1] <= dom.split[2]
        /\ dom.split[2] <= dom.split[3]

(***************************************************************************)
(* C23.                                                                    *)
(***************************************************************************)
\* C23: the number of cells of the domain along each of the 3 axes is the
\* factor of the 3-way split of the communicator size for that axis times
\* domain_factor, which defaults to 2 without periodic wrapping and to 1 with
\* periodic wrapping.
C23_DomainCells ==
    (dom.stage = "grid") =>
        /\ Len(dom.grid) = 3
        /\ \A a \in 1..3 : dom.grid[a] - 1 = dom.split[a] * DomainFactor(dom)
        /\ dom.domain_factor = <<>> => DomainFactor(dom) = IF dom.periodic THEN 1 ELSE 2

(***************************************************************************)
(* C24.                                                                    *)
(***************************************************************************)
\* the terms rank r has accumulated in the bin (i, j)
TermsIn(r, i, j) ==
    {t \in Accumulated(r) : ExpectedRow(Norm2(t[1])) = i /\ ExpectedCol(t) = j}

\* what a term adds to ysum: its Legendre weight (a numerator) times the
\* stored value in the direct pass, times sign * conj(value) in the mirror
\* pass, sign being -1 with antisymmetric
TermValue(t, ell) ==
    Scale(LegNum(ell, TermMu(t), Norm2(t[1])),
          IF t[2] = 0 THEN ModeValue(t[1])
          ELSE Scale(IF cfg.antisymmetric THEN -1 ELSE 1, Conj(ModeValue(t[1]))))

RECURSIVE SumTermValues(_, _)
SumTermValues(T, ell) ==
    IF T = {} THEN <<0, 0>>
    ELSE LET t == CHOOSE u \in T : TRUE
             rest == SumTermValues(T \ {t}, ell)
         IN  <<TermValue(t, ell)[1] + rest[1], TermValue(t, ell)[2] + rest[2]>>

RECURSIVE SumTermMu(_)
SumTermMu(T) ==
    IF T = {} THEN 0 ELSE LET t == CHOOSE u \in T : TRUE IN TermMu(t) + SumTermMu(T \ {t})

\* the terms of T on the shell s
OnShell(T, s) == {t \in T : Norm2(t[1]) = s}

\* the accumulated terms of rank r, each with the row and the column where
\* it belongs
BinnedTerms(r) == {<<t, ExpectedRow(Norm2(t[1])), ExpectedCol(t)>> : t \in Accumulated(r)}

TermsOf(B, i, j) == {b[1] : b \in {c \in B : c[2] = i /\ c[3] = j}}

\* the bin (i, j) of the buffers of rank r holds the terms T and nothing else
HoldsTerms(r, i, j, T) ==
    /\ nsum[r][i][j] = Cardinality(T)
    /\ \A s \in {Norm2(t[1]) : t \in T} \cup DOMAIN musum[r][i][j] :
          Coef(musum[r][i][j], s) = IF s = 0 THEN 0 ELSE SumTermMu(OnShell(T, s))
    /\ \A l \in DOMAIN Ells :
          \A s \in {Norm2(t[1]) : t \in T} \cup DOMAIN ysum[r][l][i][j] :
              CCoef(ysum[r][l][i][j], s) = SumTermValues(OnShell(T, s), Ells[l])

\* C24: on a Hermitian-compressed field each stored mode of strictly positive
\* frequency along the last axis is accumulated exactly twice, at (x, mu) with
\* its stored value and at (x, -mu) with sign * conj(value), sign = -1 if
\* antisymmetric else +1, and each stored mode of non-positive frequency along
\* that axis exactly once; on a non-compressed field every mode is accumulated
\* exactly once, with its value, whatever the antisymmetric flag.
C24_MirrorOfPositiveModes ==
    \A r \in Ranks : pc[r] = "loop" =>
        \A B \in {BinnedTerms(r)} :
            \A i \in Rows, j \in Cols :
                \A T \in {TermsOf(B, i, j)} : HoldsTerms(r, i, j, T)

\* a rank has accumulated planes of the compressed storage of the field passed
\* with antisymmetric: a bin holds mirrored terms and a non-zero dipole, and
\* modes of the Nyquist plane of the last axis are among the terms, once
C24_Witness ==
    \E r \in Ranks :
        /\ pc[r] = "loop"
        /\ pos[r] > 0
        /\ Compressed
        /\ cfg.antisymmetric
        /\ \E i \in 1..Nx, j \in 1..Nmu :
              /\ \E t \in TermsIn(r, i, j) : t[2] = 1
              /\ \E t \in Accumulated(r) : t[2] = 0 /\ t[1][3] = -HalfN
              /\ ysum[r][2][i][j] # ZeroCVec

(***************************************************************************)
(* C25.                                                                    *)
(***************************************************************************)
\* a step that moves a rank moves it to its next position, and a reduction
\* moves every rank at once, all of them from the same position
InOrder ==
    \A r \in Ranks :
        pc'[r] # pc[r] =>
            /\ pc'[r] = Successor[pc[r]]
            /\ pc[r] \in {"loop", "musum", "ysum", "nsum"} =>
                  \A q \in Ranks : pc[q] = pc[r] /\ pc'[q] = pc'[r]

\* every rank has returned from the last call
AllReturned == call = Len(Calls) /\ \A r \in Ranks : pc[r] = "done"

\* C25: every rank that enters project_to_basis takes part in the same
\* reductions, of xsum, musum, ysum and nsum in this order, once each,
\* whatever its local data (no slab, or empty slabs only), and the call
\* returns on all ranks: no rank stays blocked in a reduction.
C25_AllRanksReduce == [][InOrder]_vars /\ <>[]AllReturned

\* the call where a rank has empty slabs only has returned on both ranks,
\* after the call where a rank had no slab at all
C25_Witness ==
    /\ AllReturned
    /\ Len(hist) = 3
    /\ \E r \in Ranks : LocalCount(r) > 0 /\ \A p \in 0..(LocalCount(r) - 1) : EmptySlab(r, p)
    /\ Cardinality({i \in 0..(Nmesh - 1) : Calls[3].owner[i] = 0}) + Calls[3].hollow[0] = 0
    /\ \E i \in 1..Nx, j \in 1..Nmu : out[1][1].n2d[i][j] > 1

(***************************************************************************)
(* C26.                                                                    *)
(***************************************************************************)
\* the multipoles _run_local_los goes through: the distinct requested ones,
\* in increasing order
LocalOrder == Sorted(SeqRange(est.args.ells[1]))

\* number of r2c of the loops over m of the first n multipoles of order
RECURSIVE YlmTransformsUpTo(_, _)
YlmTransformsUpTo(order, n) ==
    IF n = 0 THEN 0
    ELSE YlmTransformsUpTo(order, n - 1)
         + (IF order[n] = 0 THEN 0 ELSE 2 * order[n] + 1)

\* _run_local_los is at its (est.projections + 1)-th multipole
AtLocalStep ==
    est.stage = "local" =>
        /\ est.projections < Len(LocalOrder)
        /\ est.job = LocalOrder[est.projections + 1]
        /\ est.jobs = SubSeq(LocalOrder, est.projections + 2, Len(LocalOrder))
        /\ Len(est.result) = est.projections
        /\ \A i \in DOMAIN est.result : est.result[i].ell = LocalOrder[i]
        /\ est.r2c = LocalFirstTransforms(est)
                     + YlmTransformsUpTo(LocalOrder, est.projections + 1)
        /\ cfg.antisymmetric = (est.job % 2 = 1)
        /\ cfg.left = (IF est.job = 0 THEN MeshFactor(LocalMesh1(est))
                       ELSE YlmFactor(LocalMesh1(est), est.job))
        /\ cfg.right = MeshFactor(LocalMesh2(est))
        /\ est.poles = <<>>

\* _run_local_los has returned
AtLocalDone ==
    (est.stage = "done" /\ est.los_type # "global") =>
        /\ est.projections = Len(LocalOrder)
        /\ Len(est.result) = Len(LocalOrder)
        /\ \A i \in DOMAIN est.result : est.result[i].ell = LocalOrder[i]
        /\ est.r2c = LocalFirstTransforms(est)
                     + YlmTransformsUpTo(LocalOrder, Len(LocalOrder))
        /\ est.poles # <<>>

\* a step of _run_local_los: from one multipole to a greater one, of order
\* > 0, with 2 ell + 1 more r2c and one more projection, or to the end
LocalSequence ==
    (est.stage = "local" /\ est' # est) =>
        /\ est'.projections = est.projections + 1
        /\ \/ /\ est'.stage = "local"
              /\ est'.job > est.job
              /\ est'.job > 0
              /\ est'.r2c = est.r2c + 2 * est'.job + 1
              /\ cfg'.antisymmetric = (est'.job % 2 = 1)
              /\ cfg'.left.ell = est'.job
              /\ est'.poles = <<>>
           \/ /\ est'.stage = "done"
              /\ est.jobs = <<>>
              /\ est'.r2c = est.r2c
              /\ est'.poles # <<>>

\* C26: _run_local_los goes through the distinct requested multipoles in
\* increasing order, the monopole first if 0 is requested, whatever the order
\* and the repetitions of the requested ells: each is projected once, a
\* multipole ell > 0 from the sum over m of 2 ell + 1 transforms of mesh1 alone
\* and with antisymmetric = (ell odd); poles is set after the last one only.
C26_LocalSequence == []AtLocalStep /\ []AtLocalDone /\ [][LocalSequence]_vars

\* the second step of a request (2, 2, 1): ell = 2 after ell = 1, 3 + 5 r2c
\* of the loops over m so far
C26_Witness ==
    /\ est.stage = "local"
    /\ est.args.ells[1] = <<2, 2, 1>>
    /\ est.projections = 1
    /\ est.job = 2
    /\ est.result[1].ell = 1
    /\ est.r2c = LocalFirstTransforms(est) + 8
    /\ ~cfg.antisymmetric

(***************************************************************************)
(* C27.                                                                    *)
(***************************************************************************)
\* the terms of all ranks, each with the row and the column where it belongs
AllBinnedTerms == UNION {BinnedTerms(r) : r \in Ranks}

\* the terms of the row i of the multipoles: those of the mu-bins of the
\* row, and the zero mode if it is folded into one of them
PoleTerms(B, i) ==
    {b[1] : b \in {c \in B : c[2] = i /\ c[3] \in 1..Nmu}}
    \cup (IF ~cfg.exclude_zero /\ DigZero(cfg.xedges, cfg.muedges)[1] = i
             /\ DigZero(cfg.xedges, cfg.muedges)[2] \in 1..Nmu
          THEN {b[1] : b \in {c \in B : c[2] = Nx + 2}} ELSE {})

\* q is the average over the terms T of y3d times the Legendre weight of
\* order ell
IsMultipole(q, T, ell) ==
    IF T = {} THEN q.kind = "nan"
    ELSE /\ q.kind = "finite"
         /\ q.den = Cardinality(T)
         /\ \A s \in {Norm2(t[1]) : t \in T} \cup DOMAIN q.num :
               CCoef(q.num, s) = SumTermValues(OnShell(T, s), ell)

\* v is the sum over the terms T of y3d times the Legendre weight of order ell
IsMultipoleSum(v, T, ell) ==
    \A s \in {Norm2(t[1]) : t \in T} \cup DOMAIN v :
        CCoef(v, s) = SumTermValues(OnShell(T, s), ell)

\* what project_to_basis returned on a rank for a request of multipoles: the
\* row e of poles and of poles_zero is of order ells[e] (rows of bins at or
\* beyond Nyquist are NaN for every order)
ProjectedRows ==
    \A r \in Ranks : (cfg.field # "none" /\ pc[r] = "done" /\ cfg.poles) =>
        \A B \in {AllBinnedTerms} :
            /\ DOMAIN out[r][1].poles = DOMAIN cfg.ells
            /\ DOMAIN out[r][1].poles_zero = DOMAIN cfg.ells
            /\ \A e \in DOMAIN cfg.ells :
                  /\ \A i \in 1..Nx :
                        IF i \in out[r][1].masked THEN out[r][1].poles[e][i].kind = "nan"
                        ELSE \A T \in {PoleTerms(B, i)} :
                                 IsMultipole(out[r][1].poles[e][i], T, cfg.ells[e])
                  /\ \A Z \in {{b[1] : b \in {c \in B : c[2] = Nx + 2}}} :
                        IsMultipoleSum(out[r][1].poles_zero[e], Z, cfg.ells[e])

\* _run_global_los: the rows of the poles are those of project_to_basis
GlobalRows ==
    (est.stage = "global" /\ est'.stage = "done" /\ est'.poles # <<>>) =>
        /\ est'.poles[1].ells = cfg.ells
        /\ cfg.ells = est.args.ells[1]
        /\ DOMAIN est'.poles[1].power_nonorm = DOMAIN cfg.ells
        /\ \A e \in DOMAIN cfg.ells :
              /\ est'.poles[1].power_nonorm[e]
                    = [i \in 1..Nx |-> Corrected(out[0][1].poles[e][i])]
              /\ est'.poles[1].power_zero_nonorm[e]
                    = CorrectedZero(out[0][1].poles_zero[e])

\* _run_local_los keeps the projection of the field of order ell ...
LocalKept ==
    (est.stage = "local" /\ est' # est) =>
        /\ Len(est'.result) = Len(est.result) + 1
        /\ SubSeq(est'.result, 1, Len(est.result)) = est.result
        /\ est'.result[Len(est'.result)]
              = [ell |-> cfg.left.ell, fourpi |-> cfg.left.ylm,
                 power |-> [i \in 1..Nx |-> out[0][1].y2d[i][1]],
                 power_zero |-> out[0][1].zero2d]
        /\ cfg.left.ylm = (cfg.left.ell # 0)

\* ... and the row l of its poles is made of the projection of order ells[l]
LocalRows ==
    (est.stage = "local" /\ est'.stage = "done") =>
        /\ est'.poles[1].ells = est.args.ells[1]
        /\ DOMAIN est'.poles[1].power_nonorm = DOMAIN est.args.ells[1]
        /\ \A l \in DOMAIN est.args.ells[1] :
              \E j \in DOMAIN est'.result :
                 /\ est'.result[j].ell = est.args.ells[1][l]
                 /\ est'.poles[1].power_nonorm[l]
                       = [i \in 1..Nx |-> LocalPower(est, est'.result[j].fourpi,
                                                     est'.result[j].power[i])]
                 /\ est'.poles[1].power_zero_nonorm[l]
                       = LocalPowerZero(est, est'.result[j].fourpi,
                                        est'.result[j].power_zero)

\* C27: for every requested tuple of multipoles ells (in any order, with or
\* without 0, with repeated entries) the i-th row of the returned multipoles
\* (poles and poles_zero of project_to_basis, power_nonorm and
\* power_zero_nonorm of the poles of _run_global_los and _run_local_los) is
\* the multipole of order ells[i].
C27_RowsFollowElls == []ProjectedRows /\ [][GlobalRows /\ LocalKept /\ LocalRows]_vars

\* the multipoles (2, 2, 1) along a global line-of-sight, returned by
\* project_to_basis: two equal rows of order 2, a third one of order 1 that
\* differs from them
C27_Witness ==
    /\ est.stage = "global"
    /\ cfg.ells = <<2, 2, 1>>
    /\ pc[0] = "done"
    /\ \E i \in 1..Nx :
          /\ out[0][1].poles[1][i].kind = "finite"
          /\ out[0][1].poles[1][i] = out[0][1].poles[2][i]
          /\ out[0][1].poles[3][i] # out[0][1].poles[1][i]
    /\ out[0][1].poles_zero[1] # out[0][1].poles_zero[3]

\* the poles (2, 2, 1) of a local line-of-sight estimator: the third row is
\* the first entry of result
C27_WitnessLocal ==
    /\ est.stage = "done"
    /\ est.los_type = "firstpoint"
    /\ est.poles[1].ells = <<2, 2, 1>>
    /\ est.result[1].ell = 1
    /\ \E i \in DOMAIN est.poles[1].power_nonorm[3] :
          /\ est.poles[1].power_nonorm[3][i].value.kind = "finite"
          /\ est.poles[1].power_nonorm[3][i] # est.poles[1].power_nonorm[1][i]

(***************************************************************************)
(* C28.                                                                    *)
(***************************************************************************)
\* the arrays of a statistic that slice, select and rebin cut
CutArrays(st) ==
    [edges |-> st.edges, modes |-> st.modes, nmodes |-> st.nmodes,
     power_nonorm |-> st.power_nonorm, power_direct_nonorm |-> st.power_direct_nonorm]

\* C28: slice, select and rebin are all-or-nothing: whenever a call raises,
\* edges, modes, nmodes, power_nonorm and power_direct_nonorm of the
\* statistic are what they were before the call.
C28_AllOrNothing ==
    (ret.op \in {"slice", "select", "rebin"} /\ ret.raised) =>
        CutArrays(stat) = CutArrays(ret.before)

\* the same of rebin and select alone, and of slice when it raises before
\* its call of rebin
C28_RaisedBeforeCut ==
    (/\ ret.op \in {"slice", "select", "rebin"}
     /\ ret.raised
     /\ ret.op = "slice" =>
           \/ Len(ret.arg) > Len(ret.before.ashape)
           \/ \E a \in DOMAIN ret.arg : ret.arg[a].step # <<>> /\ ret.arg[a].step[1] < 0)
    => CutArrays(stat) = CutArrays(ret.before)

(***************************************************************************)
(* C29.                                                                    *)
(***************************************************************************)
\* the zero mode is folded into a returned bin by the running projection
ZeroFolded ==
    /\ ~cfg.exclude_zero
    /\ DigZero(cfg.xedges, cfg.muedges)[1] \in 1..Nx
    /\ DigZero(cfg.xedges, cfg.muedges)[2] \in 1..Nmu

\* a, times n, is the sum over the terms T of the value times the Legendre
\* weight of order ell (conjugated, in the units of a)
IsSumOver(a, n, T, ell) ==
    /\ a.value.kind = "finite"
    /\ \A s \in {Norm2(t[1]) : t \in T} \cup DOMAIN a.value.num :
          Scale(n, CCoef(a.value.num, s))
              = Scale(a.value.den, Conj(SumTermValues(OnShell(T, s), ell)))

\* the terms of the non-zero modes of the row i, all mu-bins together
RowTerms(B, i) == {b[1] : b \in {c \in B : c[2] = i /\ c[3] \in 1..Nmu}}

\* the wedges of _run_global_los
WedgesNulled ==
    (est.stage = "global" /\ est'.stage = "done") =>
        \A B \in {AllBinnedTerms} : \A nulled \in {NulledWedges(est'.wedges[1])} :
            /\ \A i \in 1..Nx, j \in 1..Nmu :
                  (i \notin out[0][1].masked /\ est'.wedges[1].nmodes[i][j] > 0) =>
                      \A T \in {TermsOf(B, i, j)} :
                          IsSumOver(nulled[i][j], est'.wedges[1].nmodes[i][j], T, 0)
            /\ ~ZeroFolded => nulled = est'.wedges[1].power_nonorm

\* the poles of _run_global_los
GlobalPolesNulled ==
    (est.stage = "global" /\ est'.stage = "done" /\ est'.poles # <<>>) =>
        \A B \in {AllBinnedTerms} : \A nulled \in {NulledPoles(est'.poles[1])} :
            /\ \A l \in DOMAIN est'.poles[1].ells : \A i \in 1..Nx :
                  (i \notin out[0][1].masked /\ est'.poles[1].nmodes[i] > 0) =>
                      \A T \in {RowTerms(B, i)} :
                          IsSumOver(nulled[l][i], est'.poles[1].nmodes[i], T,
                                    est'.poles[1].ells[l])
            /\ ~ZeroFolded => nulled = est'.poles[1].power_nonorm

\* the poles of _run_local_los: the rows of the multipole projected last
LocalPolesNulled ==
    (est.stage = "local" /\ est'.stage = "done") =>
        \A B \in {AllBinnedTerms} : \A nulled \in {NulledPoles(est'.poles[1])} :
            /\ \A l \in DOMAIN est'.poles[1].ells : \A i \in 1..Nx :
                  (/\ est'.poles[1].ells[l] = est.job
                   /\ i \notin out[0][1].masked
                   /\ est'.poles[1].nmodes[i] > 0) =>
                      \A T \in {RowTerms(B, i)} :
                          IsSumOver(nulled[l][i], est'.poles[1].nmodes[i], T, 0)
            /\ ~ZeroFolded => nulled = est'.poles[1].power_nonorm

\* C29: for the wedges and the poles built by MeshFFTPower,
\* get_power(null_zero_mode=True) removes from a bin exactly what the zero
\* mode contributed to it: the nulled unnormalized value times nmodes is the
\* sum over the non-zero modes of the bin, and when the zero mode was not
\* folded into any returned bin null_zero_mode changes no bin.
C29_NullZeroMode == [][WedgesNulled /\ GlobalPolesNulled /\ LocalPolesNulled]_vars

\* the same of the wedges and of the poles of the local line-of-sight alone
C29_NullZeroModeOfWedges == [][WedgesNulled /\ LocalPolesNulled]_vars

====
